---- MODULE Spec2Model ----
(***************************************************************************)
(* Libra: duplicate detection (core/duplicate_finder.py), destination      *)
(* naming (core/organizer.py), classification (core/video_metadata.py,     *)
(* video_tools/core/classifier.py), input roots and the batch pipelines    *)
(* (gui/main_window.py, video_tools), modelled as state machines.          *)
(*                                                                         *)
(* Text is a sequence of one-character strings.  A file's content is a     *)
(* run-length encoded byte sequence, << <<byte, count>>, ... >>, with      *)
(* adjacent runs holding different bytes, so that a file longer than the   *)
(* 1 MiB hashing window is a short value.                                  *)
(***************************************************************************)
EXTENDS Integers, Sequences, FiniteSets, TLC

VARIABLES
    fs,           \* DuplicateFinder: path -> what the scanned path is on disk
    file_hashes,  \* DuplicateFinder._file_hashes: key -> first path stored
    last,         \* the latest DuplicateFinder call: arguments, outcome
    log,          \* <<path, size, first MiB>> of every is_duplicate call on
                  \* a readable file, in call order, first occurrence only
    mode,         \* Organizer.mode
    prefix,       \* Organizer.prefix
    counters,     \* Organizer.counters: category key -> last counter used
    disk,         \* the destination paths that exist, <<subfolder, name>>
    dirs,         \* the destination folders get_destination has created
    pc,           \* "idle", or "loop" inside get_destination's while loop
    call,         \* the locals of the get_destination call in progress
    dests,        \* what the finished get_destination calls returned
    probe,        \* classification: what the probe reports for the video
    vm,           \* classification: the VideoMetadata record, or NoRecord
    core_out,     \* classification: VideoClassifier.classify's result
    tools_out,    \* classification: classify_video_properties' result
    swaps,        \* classification: where width and height were swapped
    inputs,       \* input roots: the paths the user dropped or selected
    runs,         \* input roots: what each _dedupe_input_roots call returned
    pipeline,     \* batch: "ScanWorker", "VideoProcessorThread" or
                  \* "process_folder"
    files,        \* batch: the paths to process, in order
    probes,       \* batch: path -> what the probe tools report for it
    running,      \* batch: the worker's running / is_running flag
    idx,          \* batch: the position in files of the loop
    bpc,          \* batch: "check" at the top of the loop, "work" inside
                  \* it, "finished", "returned" (stopped), "crashed"
    signals,      \* batch: the signals emitted, in order
    results,      \* batch: the result records emitted or appended
    name_in,      \* sanitizing: the name handed to the sanitizing functions
    san,          \* sanitizing: what each of them returned for it
    scan_worker,  \* scans: MainWindow.scan_worker, the latest ScanWorker
    event_queue,  \* scans: the worker signals queued for the main thread
    all_video_data, \* scans: MainWindow.all_video_data, filepath -> the
                  \* number of the worker whose result is stored
    mpc,          \* scans: the main thread is in its event loop ("events")
                  \* or inside _start_scan's wait() ("wait")
    pending,      \* scans: the files of the _start_scan call that waits
    tree,         \* input tree: path -> the directory entry at that path
    listing,      \* input tree: the order in which the system lists names
    tpc,          \* input tree: "idle", or where _sanitize_inputs stands:
                  \* "roots" between two roots, "renames" inside one
    job,          \* input tree: the locals of the _sanitize_inputs call in
                  \* progress
    tree_runs,    \* input tree: what each finished _sanitize_inputs call
                  \* was given and returned
    rename_log    \* input tree: the renames attempted, in order

dupVars == <<fs, file_hashes, last, log>>

orgVars == <<mode, prefix, counters, disk, dirs, pc, call, dests>>

clsVars == <<probe, vm, core_out, tools_out, swaps>>

rootVars == <<inputs, runs>>

batchVars == <<pipeline, files, probes, running, idx, bpc, signals, results>>

sanVars == <<name_in, san>>

scanVars == <<scan_worker, event_queue, all_video_data, mpc, pending>>

treeVars == <<tree, listing, tpc, job, tree_runs, rename_log>>

\* what an Organizer step and a DuplicateFinder step leave alone
notOrgVars == <<dupVars, clsVars, rootVars, batchVars,
    sanVars,
    scanVars,
    treeVars>>

notDupVars == <<orgVars, clsVars, rootVars, batchVars,
    sanVars,
    scanVars,
    treeVars>>

notClsVars == <<dupVars, orgVars, rootVars, batchVars,
    sanVars,
    scanVars,
    treeVars>>

notRootVars == <<dupVars, orgVars, clsVars, batchVars,
    sanVars,
    scanVars,
    treeVars>>

notSanVars == <<dupVars, orgVars, clsVars, rootVars, batchVars, scanVars,
                treeVars>>

notScanVars == <<dupVars, orgVars, clsVars, rootVars, batchVars, sanVars,
                 treeVars>>

notTreeVars == <<dupVars, orgVars, clsVars, rootVars, batchVars, sanVars,
                 scanVars>>

\* what a batch step leaves alone besides the DuplicateFinder index
notBatchVars == <<fs, last, log, orgVars, clsVars, rootVars,
    sanVars,
    scanVars,
    treeVars>>

vars == <<fs, file_hashes, last, log,
          mode, prefix, counters, disk, dirs, pc, call, dests,
          probe, vm, core_out, tools_out, swaps, inputs, runs,
          pipeline, files, probes, running, idx, bpc, signals, results,
          sanVars,
          scanVars,
          treeVars>>

----------------------------------------------------------------------------
(* Files under scan *)

\* _compute_partial_hash's default chunk_size: 1 MiB
ChunkSize == 1048576

Paths == {"a.mov", "b.mov", "c.mov"}

Empty == <<>>
Small1 == << <<1, 3>> >>
Small2 == << <<2, 3>> >>
Long1 == << <<1, ChunkSize>>, <<2, 1>> >>
Long2 == << <<1, ChunkSize>>, <<3, 1>> >>
Long3 == << <<1, ChunkSize>>, <<2, 2>> >>

Contents == {Empty, Small1, Small2, Long1, Long2, Long3}

\* "denied": stat() on the path fails with EACCES (a file in a folder the
\* process may not search)
FileStates ==
    {[kind |-> "missing", data |-> Empty], [kind |-> "dir", data |-> Empty],
     [kind |-> "denied", data |-> Empty]}
    \cup {[kind |-> "file", data |-> c] : c \in Contents}

\* what the operating system and the interpreter do during one call:
\* strict = pathlib's is_file() lets an OSError other than ENOENT, ENOTDIR,
\* EBADF, ELOOP escape (CPython 3.11) rather than returning False;
\* statOk = FALSE: stat() raises OSError after is_file() found the file;
\* readOk = FALSE: open() or read() raises OSError
Io(strict, statOk, readOk) ==
    [strict |-> strict, statOk |-> statOk, readOk |-> readOk]

\* the outcomes that differ for a path in state st
IoOutcomes(st) ==
    IF st.kind = "file"
        THEN {Io(TRUE, TRUE, TRUE), Io(TRUE, FALSE, TRUE), Io(TRUE, TRUE, FALSE)}
    ELSE IF st.kind = "denied"
        THEN {Io(TRUE, TRUE, TRUE), Io(FALSE, TRUE, TRUE)}
    ELSE {Io(TRUE, TRUE, TRUE)}

\* Path.is_file() returns True
is_file(st) == st.kind = "file"

\* Path.is_file() raises: its stat() is refused and the error is not one of
\* those pathlib ignores
is_file_raises(st, io) == st.kind = "denied" /\ io.strict

\* os.stat().st_size: the number of bytes of the content
RECURSIVE st_size(_)
st_size(c) == IF c = <<>> THEN 0 ELSE Head(c)[2] + st_size(Tail(c))

\* f.read(n): the first n bytes of the content, fewer if the file is shorter
RECURSIVE read(_, _)
read(c, n) ==
    IF c = <<>> \/ n = 0 THEN <<>>
    ELSE IF Head(c)[2] <= n
         THEN <<Head(c)>> \o read(Tail(c), n - Head(c)[2])
         ELSE << <<Head(c)[1], n>> >>

\* hashlib.sha256(chunk).hexdigest(): a non-empty digest, taken to be free
\* of collisions; the digest of a chunk is the one-element sequence holding it
hexdigest(chunk) == <<chunk>>

\* the empty string returned when nothing was hashed
NoHash == <<>>

\* A variant that hashes whatever was read, an empty chunk included.
compute_partial_hash_NoEmptyCheck(st, chunk_size, readOk) ==
    IF readOk THEN hexdigest(read(st.data, chunk_size)) ELSE NoHash

\* DuplicateFinder._compute_partial_hash; readOk = FALSE is open() or read()
\* raising OSError
compute_partial_hash(st, chunk_size, readOk) ==
    IF readOk
    THEN LET chunk == read(st.data, chunk_size)
         IN  IF chunk # <<>> THEN hexdigest(chunk) ELSE NoHash
    ELSE NoHash

\* f"{file_size}_{partial_hash}": digits, "_", hex digits; the pair it encodes
file_key(file_size, partial_hash) == <<file_size, partial_hash>>

EmptyIndex == [k \in {} |-> "a.mov"]

\* dict.get(key, default)
dict_get(d, k, default) == IF k \in DOMAIN d THEN d[k] ELSE default

\* dict[key] = value
dict_set(d, k, v) == [x \in DOMAIN d \cup {k} |-> IF x = k THEN v ELSE d[x]]

\* what a call does: the value returned, whether an exception escaped, and
\* _file_hashes afterwards
Outcome(ret, raised, index) ==
    [ret |-> ret, raised |-> raised, index |-> index]

\* A variant that stores the path on every call, replacing the stored one.
is_duplicate_Overwrite(index, st, path, io) ==
    IF is_file_raises(st, io) THEN Outcome(FALSE, TRUE, index)
    ELSE IF ~is_file(st) THEN Outcome(FALSE, FALSE, index)
    ELSE IF ~io.statOk THEN Outcome(FALSE, FALSE, index)
    ELSE LET partial_hash == compute_partial_hash(st, ChunkSize, io.readOk)
             key == file_key(st_size(st.data), partial_hash)
         IN  IF partial_hash = NoHash
             THEN Outcome(FALSE, FALSE, index)
             ELSE Outcome(key \in DOMAIN index, FALSE,
                          dict_set(index, key, path))

\* A variant whose key leaves the file size out.
is_duplicate_HashOnlyKey(index, st, path, io) ==
    IF is_file_raises(st, io) THEN Outcome(FALSE, TRUE, index)
    ELSE IF ~is_file(st) THEN Outcome(FALSE, FALSE, index)
    ELSE IF ~io.statOk THEN Outcome(FALSE, FALSE, index)
    ELSE LET partial_hash == compute_partial_hash(st, ChunkSize, io.readOk)
             key == file_key(0, partial_hash)
         IN  IF partial_hash = NoHash
             THEN Outcome(FALSE, FALSE, index)
             ELSE IF key \in DOMAIN index
                  THEN Outcome(TRUE, FALSE, index)
                  ELSE Outcome(FALSE, FALSE, dict_set(index, key, path))

\* DuplicateFinder.is_duplicate: the value returned (FALSE when an exception
\* escapes instead), whether one escaped, the index afterwards
is_duplicate(index, st, path, io) ==
    IF is_file_raises(st, io) THEN Outcome(FALSE, TRUE, index)
    ELSE IF ~is_file(st) THEN Outcome(FALSE, FALSE, index)
    ELSE IF ~io.statOk THEN Outcome(FALSE, FALSE, index)
    ELSE LET partial_hash == compute_partial_hash(st, ChunkSize, io.readOk)
             key == file_key(st_size(st.data), partial_hash)
         IN  IF partial_hash = NoHash
             THEN Outcome(FALSE, FALSE, index)
             ELSE IF key \in DOMAIN index
                  THEN Outcome(TRUE, FALSE, index)
                  ELSE Outcome(FALSE, FALSE, dict_set(index, key, path))

\* DuplicateFinder.get_original: the path returned (the argument when an
\* exception escapes instead); the index is only read
get_original(index, st, path, io) ==
    IF is_file_raises(st, io) THEN Outcome(path, TRUE, index)
    ELSE IF ~is_file(st) THEN Outcome(path, FALSE, index)
    ELSE IF ~io.statOk THEN Outcome(path, FALSE, index)
    ELSE LET partial_hash == compute_partial_hash(st, ChunkSize, io.readOk)
             key == file_key(st_size(st.data), partial_hash)
         IN  Outcome(dict_get(index, key, path), FALSE, index)

\* no call made yet
NoCall ==
    [op |-> "none", path |-> "a.mov", io |-> Io(TRUE, TRUE, TRUE),
     retb |-> FALSE, retp |-> "a.mov", raised |-> FALSE]

----------------------------------------------------------------------------
(* Text *)

Digit == <<"0", "1", "2", "3", "4", "5", "6", "7", "8", "9">>

UpperCase == <<"A", "B", "C", "D", "E", "F", "G", "H", "I", "J", "K", "L", "M",
               "N", "O", "P", "Q", "R", "S", "T", "U", "V", "W", "X", "Y", "Z">>

LowerCase == <<"a", "b", "c", "d", "e", "f", "g", "h", "i", "j", "k", "l", "m",
               "n", "o", "p", "q", "r", "s", "t", "u", "v", "w", "x", "y", "z">>

Range(s) == {s[i] : i \in DOMAIN s}

\* str.lower(), one character
lower(ch) ==
    IF ch \in Range(UpperCase)
    THEN LowerCase[CHOOSE i \in DOMAIN UpperCase : UpperCase[i] = ch]
    ELSE ch

\* str.isalnum(), one character
isalnum(ch) == ch \in Range(Digit) \cup Range(UpperCase) \cup Range(LowerCase)

\* str(n) for n >= 0
RECURSIVE str_int(_)
str_int(n) ==
    IF n < 10 THEN <<Digit[n + 1]>>
    ELSE str_int(n \div 10) \o <<Digit[(n % 10) + 1]>>

\* f"{n:03d}": decimal, zero-padded to at least 3 digits
format_03d(n) ==
    LET d == str_int(n)
    IN  IF Len(d) >= 3 THEN d ELSE [i \in 1..(3 - Len(d)) |-> "0"] \o d

\* the characters s[lo..hi] whose index is in keep, in order
RECURSIVE FilterRange(_, _, _, _)
FilterRange(s, lo, hi, keep) ==
    IF lo > hi THEN <<>>
    ELSE IF lo = hi THEN (IF lo \in keep THEN <<s[lo]>> ELSE <<>>)
    ELSE LET mid == (lo + hi) \div 2
         IN  FilterRange(s, lo, mid, keep) \o FilterRange(s, mid + 1, hi, keep)

\* the characters of s whose index is in keep, in order
Filter(s, keep) == FilterRange(s, 1, Len(s), keep)

\* " ".join(parts)
RECURSIVE join_space(_)
join_space(parts) ==
    IF parts = <<>> THEN <<>>
    ELSE IF Len(parts) = 1 THEN parts[1]
    ELSE parts[1] \o <<" ">> \o join_space(Tail(parts))

\* the last index of ch in s[1..i], 0 when absent
RECURSIVE rfind_from(_, _, _)
rfind_from(s, ch, i) ==
    IF i = 0 THEN 0
    ELSE IF s[i] = ch THEN i
    ELSE rfind_from(s, ch, i - 1)

\* str.rfind(ch), 1-based, 0 when absent
rfind(s, ch) == rfind_from(s, ch, Len(s))

\* PurePath.suffix of a final path component
suffix(name) ==
    LET i == rfind(name, ".")
    IN  IF 1 < i /\ i < Len(name) THEN SubSeq(name, i, Len(name)) ELSE <<>>

\* PurePath.stem of a final path component
stem(name) ==
    LET i == rfind(name, ".")
    IN  IF 1 < i /\ i < Len(name) THEN SubSeq(name, 1, i - 1) ELSE name

----------------------------------------------------------------------------
(* Organizer._sanitize_filename *)

\* the character class [\/\\\:\*\?\"\<\>\|]
Forbidden == {"/", "\\", ":", "*", "?", "\"", "<", ">", "|"}

\* the regular expression class \s, as far as the names here hold it
Whitespace == {" ", "\t", "\n"}

\* _sanitize_filename's default max_len
max_len == 200

\* re.sub(r"[\/\\\:\*\?\"\<\>\|]", "_", name)
replace_forbidden(name) ==
    [i \in DOMAIN name |-> IF name[i] \in Forbidden THEN "_" ELSE name[i]]

\* re.sub(r"\s+", " ", name)
collapse_whitespace(name) ==
    LET sp == [i \in DOMAIN name |->
                  IF name[i] \in Whitespace THEN " " ELSE name[i]]
        keep == {i \in DOMAIN sp : ~(sp[i] = " " /\ i > 1 /\ sp[i - 1] = " ")}
    IN  Filter(sp, keep)

\* re.sub(r"_+", "_", name)
collapse_underscores(name) ==
    LET keep == {i \in DOMAIN name :
                    ~(name[i] = "_" /\ i > 1 /\ name[i - 1] = "_")}
    IN  Filter(name, keep)

\* the first index from i on whose character is not in chars
RECURSIVE first_kept(_, _, _)
first_kept(s, chars, i) ==
    IF i > Len(s) \/ s[i] \notin chars THEN i
    ELSE first_kept(s, chars, i + 1)

\* the last index up to i whose character is not in chars
RECURSIVE last_kept(_, _, _)
last_kept(s, chars, i) ==
    IF i < 1 \/ s[i] \notin chars THEN i
    ELSE last_kept(s, chars, i - 1)

\* a strip of spaces only
strip_SpacesOnly(name) ==
    SubSeq(name, first_kept(name, {" "}, 1), last_kept(name, {" "}, Len(name)))

\* name.strip(" _")
strip(name) ==
    SubSeq(name, first_kept(name, {" ", "_"}, 1),
                 last_kept(name, {" ", "_"}, Len(name)))

\* s[:n] for n of either sign
slice_to(s, n) ==
    IF n >= 0 THEN SubSeq(s, 1, IF n < Len(s) THEN n ELSE Len(s))
    ELSE SubSeq(s, 1, IF Len(s) + n > 0 THEN Len(s) + n ELSE 0)

\* lines 123-130: the cut to max_len, keeping an extension of under 10
\* characters
truncate(name, maxlen) ==
    IF Len(name) > maxlen
    THEN LET i == rfind(name, ".")
             base == SubSeq(name, 1, i - 1)
             ext == SubSeq(name, i + 1, Len(name))
         IN  IF i > 0 /\ Len(ext) < 10
             THEN slice_to(base, maxlen - Len(ext) - 1) \o <<".">> \o ext
             ELSE slice_to(name, maxlen)
    ELSE name

\* Organizer._sanitize_filename(name) with the default max_len
sanitize_filename(name) ==
    truncate(strip(collapse_underscores(collapse_whitespace(
                 replace_forbidden(name)))), max_len)

----------------------------------------------------------------------------
(* MainWindow._sanitize_segment and MainWindow._resolve_unique_target *)

\* str.strip(chars)
strip_of(text, chars) ==
    SubSeq(text, first_kept(text, chars, 1), last_kept(text, chars, Len(text)))

\* re.sub(r"\s+", "_", cleaned)
whitespace_to_underscore(text) ==
    LET keep == {i \in DOMAIN text :
                    ~(text[i] \in Whitespace /\ i > 1
                      /\ text[i - 1] \in Whitespace)}
        kept == Filter(text, keep)
    IN  [i \in DOMAIN kept |-> IF kept[i] \in Whitespace THEN "_" ELSE kept[i]]

\* the character class [A-Za-z0-9._-]
is_safe(ch) == isalnum(ch) \/ ch \in {".", "_", "-"}

\* re.sub(r"[^A-Za-z0-9._-]", "_", cleaned)
replace_unsafe(text) ==
    [i \in DOMAIN text |-> IF is_safe(text[i]) THEN text[i] ELSE "_"]

\* re.sub(r"_+\.", ".", cleaned): a run of underscores that a dot follows
\* goes away
drop_underscores_before_dot(text) ==
    LET after(i) == first_kept(text, {"_"}, i)
        keep == {i \in DOMAIN text :
                    ~(text[i] = "_" /\ after(i) <= Len(text)
                      /\ text[after(i)] = ".")}
    IN  Filter(text, keep)

Untitled == <<"u", "n", "t", "i", "t", "l", "e", "d">>

\* _sanitize_segment without its last substitution
sanitize_segment_KeepUnderscoreDot(text) ==
    LET cleaned == strip_of(collapse_underscores(replace_unsafe(
                       whitespace_to_underscore(strip_of(text, Whitespace)))),
                       {".", "_", "-"})
    IN  IF cleaned = <<>> THEN Untitled ELSE cleaned

\* MainWindow._sanitize_segment(text)
sanitize_segment(text) ==
    LET cleaned == drop_underscores_before_dot(
                       strip_of(collapse_underscores(replace_unsafe(
                           whitespace_to_underscore(
                               strip_of(text, Whitespace)))),
                           {".", "_", "-"}))
    IN  IF cleaned = <<>> THEN Untitled ELSE cleaned

\* os.path.splitext(name): the extension starts at the last dot, leading
\* dots of the name aside
splitext(name) ==
    LET i == rfind(name, ".")
        lead == first_kept(name, {"."}, 1)
    IN  IF i > 0 /\ lead < i
        THEN <<SubSeq(name, 1, i - 1), SubSeq(name, i, Len(name))>>
        ELSE <<name, <<>>>>

\* A variant that sets the number off with a space
candidate_name_SpaceNumber(desired_name, is_dir, n) ==
    LET parts == IF is_dir THEN <<desired_name, <<>>>>
                 ELSE splitext(desired_name)
        base == IF ~is_dir /\ parts[1] = <<>> THEN <<"f", "i", "l", "e">>
                ELSE parts[1]
    IN  IF n = 0 THEN desired_name
        ELSE base \o <<" ">> \o str_int(n) \o parts[2]

\* lines 934-949: the n-th candidate name of _resolve_unique_target, the
\* desired name itself for n = 0
candidate_name(desired_name, is_dir, n) ==
    LET parts == IF is_dir THEN <<desired_name, <<>>>>
                 ELSE splitext(desired_name)
        base == IF ~is_dir /\ parts[1] = <<>> THEN <<"f", "i", "l", "e">>
                ELSE parts[1]
    IN  IF n = 0 THEN desired_name
        ELSE base \o <<"_">> \o str_int(n) \o parts[2]

\* nothing sanitized yet
NoClean == [filename |-> <<>>, segment |-> <<>>, numbered |-> <<>>,
            again |-> <<>>]

SanIdle ==
    /\ name_in = <<"a">>
    /\ san = NoClean

----------------------------------------------------------------------------
(* MainWindow._rename_to_sanitized and MainWindow._sanitize_directory_tree.
   A path is a sequence of names from the top directory down; a tree maps
   each path that is on disk to its entry: a "file", a "dir", or a "link"
   (a symbolic link whose target is missing), whether the system refuses
   to rename it (locked), and the path it had at the start *)

\* Path.parent and Path.name
parent(path) == SubSeq(path, 1, Len(path) - 1)

base_name(path) == path[Len(path)]

\* path / name
child(path, name) == Append(path, name)

\* the paths at or below path
under(t, path) ==
    {q \in DOMAIN t : Len(q) >= Len(path) /\ SubSeq(q, 1, Len(path)) = path}

\* Path.exists(): follows symbolic links, so False for a link whose target
\* is missing
tree_exists(t, path) == path \in DOMAIN t /\ t[path].kind # "link"

\* Path.is_file() and Path.is_dir(), which follow symbolic links too
tree_is_file(t, path) == path \in DOMAIN t /\ t[path].kind = "file"

tree_is_dir(t, path) == path \in DOMAIN t /\ t[path].kind = "dir"

\* lines 931-949: the first candidate that does not exist, from number n on
RECURSIVE resolve_unique_from(_, _, _, _, _)
resolve_unique_from(t, dir, desired_name, is_dir, n) ==
    LET candidate == child(dir, candidate_name(desired_name, is_dir, n))
    IN  IF ~tree_exists(t, candidate) THEN candidate
        ELSE resolve_unique_from(t, dir, desired_name, is_dir, n + 1)

\* MainWindow._resolve_unique_target(parent, desired_name, is_dir)
resolve_unique_target(t, dir, desired_name, is_dir) ==
    resolve_unique_from(t, dir, desired_name, is_dir, 0)

\* whether os.rename(src, dst) raises OSError: src is gone, the system
\* refuses to rename it, or one of the two is a directory and dst is there
rename_raises(t, src, dst) ==
    \/ src \notin DOMAIN t
    \/ t[src].locked
    \/ dst \in DOMAIN t /\ (t[src].kind = "dir" \/ t[dst].kind = "dir")

\* the tree after os.rename(src, dst) went through: src and what lies below
\* it are at dst; an entry that was at dst is replaced
renamed(t, src, dst) ==
    LET moved == under(t, src)
        to(q) == dst \o SubSeq(q, Len(src) + 1, Len(q))
        from(q) == src \o SubSeq(q, Len(dst) + 1, Len(q))
        stay == (DOMAIN t \ moved) \ {dst}
    IN  [q \in stay \cup {to(m) : m \in moved} |->
            IF q \in stay THEN t[q] ELSE t[from(q)]]

\* A variant that reports a rename as done whether or not it went through
rename_to_sanitized_AlwaysChanged(t, path, is_dir) ==
    LET safe_name == sanitize_segment(base_name(path))
        target == resolve_unique_target(t, parent(path), safe_name, is_dir)
    IN  IF safe_name = base_name(path)
        THEN [tree |-> t, path |-> path, changed |-> FALSE, tried |-> <<>>]
        ELSE IF rename_raises(t, path, target)
        THEN [tree |-> t, path |-> path, changed |-> TRUE,
              tried |-> <<target>>]
        ELSE [tree |-> renamed(t, path, target), path |-> target,
              changed |-> TRUE, tried |-> <<target>>]

\* MainWindow._rename_to_sanitized(path, is_dir): the tree afterwards, the
\* path and the flag returned, and the target if a rename was tried
rename_to_sanitized(t, path, is_dir) ==
    LET safe_name == sanitize_segment(base_name(path))
        target == resolve_unique_target(t, parent(path), safe_name, is_dir)
    IN  IF safe_name = base_name(path)
        THEN [tree |-> t, path |-> path, changed |-> FALSE, tried |-> <<>>]
        ELSE IF rename_raises(t, path, target)
        THEN [tree |-> t, path |-> path, changed |-> FALSE,
              tried |-> <<target>>]
        ELSE [tree |-> renamed(t, path, target), path |-> target,
              changed |-> TRUE, tried |-> <<target>>]

\* os.scandir(top): the names in top, in the order the system lists them
scandir(t, top, order) ==
    LET In(name) == child(top, name) \in DOMAIN t
    IN  SelectSeq(order, In)

\* the rename calls of one (current_root, dirnames, filenames) triple of
\* the walk, lines 970-980: the files, then the directories
triple_renames(t, top, names) ==
    LET IsFile(name) == ~tree_is_dir(t, child(top, name))
        IsDir(name) == tree_is_dir(t, child(top, name))
        filenames == SelectSeq(names, IsFile)
        dirnames == SelectSeq(names, IsDir)
    IN  [i \in DOMAIN filenames |->
            [path |-> child(top, filenames[i]), is_dir |-> FALSE,
             role |-> "entry"]]
        \o [i \in DOMAIN dirnames |->
               [path |-> child(top, dirnames[i]), is_dir |-> TRUE,
                role |-> "entry"]]

\* A variant of the walk with topdown=True: a directory's triple comes
\* before those of its subdirectories
RECURSIVE walk_TopDown(_, _, _)
walk_TopDown(t, top, order) ==
    LET names == scandir(t, top, order)
        IsDir(name) == tree_is_dir(t, child(top, name))
        walk_dirs == SelectSeq(names, IsDir)
        Below[i \in 0..Len(walk_dirs)] ==
            IF i = 0 THEN <<>>
            ELSE Below[i - 1]
                     \o walk_TopDown(t, child(top, walk_dirs[i]), order)
    IN  triple_renames(t, top, names) \o Below[Len(walk_dirs)]

\* os.walk(root, topdown=False) as _sanitize_directory_tree uses it: top is
\* listed, its subdirectories are walked, then top's triple is yielded. The
\* renames a triple's turn makes touch nothing the triples still to come
\* have listed, so the rename calls are laid out here from the tree as it
\* is when the walk starts
RECURSIVE walk(_, _, _)
walk(t, top, order) ==
    LET names == scandir(t, top, order)
        IsDir(name) == tree_is_dir(t, child(top, name))
        walk_dirs == SelectSeq(names, IsDir)
        Below[i \in 0..Len(walk_dirs)] ==
            IF i = 0 THEN <<>>
            ELSE Below[i - 1]
                     \o walk(t, child(top, walk_dirs[i]), order)
    IN  Below[Len(walk_dirs)] \o triple_renames(t, top, names)

NoTree == [q \in {} |-> [kind |-> "file", locked |-> FALSE, was |-> <<>>]]

NoJob ==
    [inputs |-> <<>>, roots |-> <<>>, renames |-> <<>>,
     sanitized_roots |-> <<>>, changed_files |-> 0, changed_dirs |-> 0]

TreeIdle ==
    /\ tree = NoTree
    /\ listing = <<>>
    /\ tpc = "idle"
    /\ job = NoJob
    /\ tree_runs = <<>>
    /\ rename_log = <<>>

----------------------------------------------------------------------------
(* MainWindow._start_scan and its ScanWorker *)

\* MainWindow.__init__: self.scan_worker = None
NoWorker == [id |-> 0, files |-> <<>>, i |-> 1, running |-> FALSE, at |-> "over"]

\* ScanWorker(files), started: running is True, run() is at the top of its
\* loop
ScanWorker(id, scan_files) ==
    [id |-> id, files |-> scan_files, i |-> 1, running |-> TRUE, at |-> "check"]

\* QThread.isRunning(): run() has not returned yet
isRunning(worker) == worker.at # "over"

\* the slot a queued signal runs: _on_result stores the record under its
\* filepath; the progress lambda and _on_done leave all_video_data alone
on_result(data, worker, event) ==
    IF event[1] = "result"
    THEN dict_set(data, event[3], event[2])
    ELSE data

NoData == [k \in {} |-> 0]

ScanIdle ==
    /\ scan_worker = NoWorker
    /\ event_queue = <<>>
    /\ all_video_data = NoData
    /\ mpc = "events"
    /\ pending = <<>>

----------------------------------------------------------------------------
(* VideoClassifier and Organizer *)

\* the members of SortMode
SortModes == {"ProVid", "VidRes", "ProMax", "MaxVid", "KeepName", "EmojiVid"}

\* VideoClassifier.classify: (res, orient, fps_bucket); fps is held in
\* hundredths of a frame per second
classify(metadata) ==
    LET w == metadata.width
        h == metadata.height
        res ==
            IF w >= 3840 \/ h >= 3840 \/ w >= 2160 \/ h >= 2160
                THEN <<"4", "K">>
            ELSE IF w = 1920 \/ h = 1920 \/ w = 1080 \/ h = 1080
                THEN <<"1", "0", "8", "0", "p">>
            ELSE IF w = 1280 \/ h = 1280 \/ w = 720 \/ h = 720
                THEN <<"7", "2", "0", "p">>
            ELSE IF w > 1080 \/ h > 1080
                THEN <<"H", "D">>
            ELSE <<"S", "D">>
        orient == IF h > w THEN <<"V">> ELSE <<"W">>
        fps_bucket == IF metadata.fps100 > 4500 THEN 60 ELSE 30
    IN  <<res, orient, fps_bucket>>

\* A variant that puts the GPS mark before the camera lens mark.
emojis_of_GpsFirst(metadata) ==
    (IF metadata.iphone_model # <<>> THEN <<"U+1F4F1">> ELSE <<>>)
    \o (IF metadata.has_gps THEN <<"U+1F30D">> ELSE <<>>)
    \o (IF metadata.has_camera_lens THEN <<"U+1F4F7">> ELSE <<>>)
    \o (IF metadata.is_edited THEN <<"U+2702", "U+FE0F">> ELSE <<>>)

\* lines 48-56: one code point per mark, two for the scissors (U+2702 U+FE0F)
emojis_of(metadata) ==
    (IF metadata.iphone_model # <<>> THEN <<"U+1F4F1">> ELSE <<>>)
    \o (IF metadata.has_camera_lens THEN <<"U+1F4F7">> ELSE <<>>)
    \o (IF metadata.has_gps THEN <<"U+1F30D">> ELSE <<>>)
    \o (IF metadata.is_edited THEN <<"U+2702", "U+FE0F">> ELSE <<>>)

\* lines 58-66: the subfolder of base_dir, empty for base_dir itself
subfolder_of(m, res, orient, fps) ==
    IF m \in {"VidRes", "KeepName"} THEN res
    ELSE IF m = "MaxVid" THEN res \o <<" ">> \o orient \o <<" ">> \o str_int(fps)
    ELSE IF m = "ProMax" THEN res \o <<" ">> \o orient
    ELSE <<>>

\* A variant that keys the counters by what the mode's subfolder shows.
format_key_ByMode(m, res, orient, fps) ==
    IF m \in {"VidRes", "KeepName"} THEN res
    ELSE res \o <<"|">> \o orient \o <<"|">> \o str_int(fps)

\* line 71: f"{res}|{orient}|{fps}", whatever the mode
format_key(m, res, orient, fps) ==
    res \o <<"|">> \o orient \o <<"|">> \o str_int(fps)

\* lines 74-76: the extension
ext_of(file_name) ==
    LET low == [i \in DOMAIN suffix(file_name) |-> lower(suffix(file_name)[i])]
        ext == Filter(low, {i \in DOMAIN low : isalnum(low[i])})
    IN  IF ext = <<>> THEN <<"m", "o", "v">> ELSE ext

\* lines 81-101: the name composed for one counter value
name_base(m, pfx, file_name, metadata, counter) ==
    LET c == classify(metadata)
        emojis == emojis_of(metadata)
        counter_str == format_03d(counter)
        last_part == counter_str \o <<".">> \o ext_of(file_name)
    IN  IF m = "KeepName"
        THEN stem(file_name) \o <<"_">> \o last_part
        ELSE IF m = "EmojiVid"
        THEN join_space((IF pfx # <<>> THEN <<pfx>> ELSE <<>>)
                        \o (IF emojis # <<>> THEN <<emojis>> ELSE <<>>)
                        \o <<last_part>>)
        ELSE join_space((IF pfx # <<>> THEN <<pfx>> ELSE <<>>)
                        \o <<c[1] \o <<" ">> \o c[2] \o str_int(c[3])>>
                        \o (IF emojis # <<>> THEN <<emojis>> ELSE <<>>)
                        \o <<last_part>>)

\* lines 68, 103-104: dest_dir / sanitized name, as <<subfolder, name>>
dest_path(m, pfx, file_name, metadata, counter) ==
    LET c == classify(metadata)
    IN  <<subfolder_of(m, c[1], c[2], c[3]),
          sanitize_filename(name_base(m, pfx, file_name, metadata, counter))>>

\* the counter key of a metadata record
key_of(m, metadata) ==
    LET c == classify(metadata) IN format_key(m, c[1], c[2], c[3])

\* A variant that starts again from the stored value.
first_counter_NoIncrement(ctrs, key) == dict_get(ctrs, key, 0)

\* line 78: the first counter value tried
first_counter(ctrs, key) == dict_get(ctrs, key, 0) + 1

\* A variant that takes the composed path without looking at the disk.
exists_Never(on_disk, path) == FALSE

\* line 106: dest_path.exists()
exists(on_disk, path) == path \in on_disk

\* A variant that stores the value the call started from.
store_counter_Start(ctrs, key, start, counter) == dict_set(ctrs, key, start)

\* line 107: self.counters[format_key] = counter
store_counter(ctrs, key, start, counter) == dict_set(ctrs, key, counter)

----------------------------------------------------------------------------
(* MetadataExtractor (core/video_metadata.py) and the video_tools
   classifier (video_tools/core/classifier.py) *)

\* what the probe tools report for a file: "video" with the stream's values,
\* "no_stream" (the tools print nothing usable), or "error" (running a tool
\* raises)
Probe(kind, width, height, rotation, fps100) ==
    [kind |-> kind, width |-> width, height |-> height,
     rotation |-> rotation, fps100 |-> fps100, iphone_model |-> <<>>,
     has_gps |-> FALSE, is_edited |-> FALSE, has_camera_lens |-> FALSE]

\* the VideoMetadata dataclass
VideoMetadata(width, height, rotation, fps100, iphone_model, has_gps, is_edited, has_camera_lens) ==
    [width |-> width, height |-> height, rotation |-> rotation,
     fps100 |-> fps100, iphone_model |-> iphone_model, has_gps |-> has_gps,
     is_edited |-> is_edited, has_camera_lens |-> has_camera_lens]

\* MetadataExtractor.extract, lines 38-39: the swap statement runs
extract_swaps(pr) == pr.kind = "video" /\ pr.rotation \in {90, 270}

\* MetadataExtractor.extract when no tool raises: a probe without a video
\* stream parses to zeros; width and height are swapped for rotation 90, 270
extract(pr) ==
    IF pr.kind = "video"
        THEN LET swap == extract_swaps(pr)
                 width == IF swap THEN pr.height ELSE pr.width
                 height == IF swap THEN pr.width ELSE pr.height
             IN  VideoMetadata(width, height, pr.rotation, pr.fps100,
                               pr.iphone_model, pr.has_gps, pr.is_edited,
                               pr.has_camera_lens)
    ELSE VideoMetadata(0, 0, 0, 0, <<>>, FALSE, FALSE, FALSE)

\* A variant of classify_resolution that tests 1080p before 4K.
classify_resolution_1080First(width, height) ==
    IF width = 1920 \/ height = 1920 \/ width = 1080 \/ height = 1080
        THEN <<"1", "0", "8", "0", "p">>
    ELSE IF width >= 3840 \/ height >= 3840 \/ width >= 2160 \/ height >= 2160
        THEN <<"4", "K">>
    ELSE IF width = 1280 \/ height = 1280 \/ width = 720 \/ height = 720
        THEN <<"7", "2", "0", "p">>
    ELSE IF width > 1080 \/ height > 1080
        THEN <<"H", "D">>
    ELSE <<"S", "D">>

\* classify_resolution
classify_resolution(width, height) ==
    IF width >= 3840 \/ height >= 3840 \/ width >= 2160 \/ height >= 2160
        THEN <<"4", "K">>
    ELSE IF width = 1920 \/ height = 1920 \/ width = 1080 \/ height = 1080
        THEN <<"1", "0", "8", "0", "p">>
    ELSE IF width = 1280 \/ height = 1280 \/ width = 720 \/ height = 720
        THEN <<"7", "2", "0", "p">>
    ELSE IF width > 1080 \/ height > 1080
        THEN <<"H", "D">>
    ELSE <<"S", "D">>

\* A variant of classify_framerate whose boundary is inclusive.
classify_framerate_Inclusive(fps100) == IF fps100 >= 4500 THEN 60 ELSE 30

\* classify_framerate; fps in hundredths of a frame per second
classify_framerate(fps100) == IF fps100 > 4500 THEN 60 ELSE 30

\* classify_orientation
classify_orientation(width, height) ==
    IF height > width THEN <<"V">> ELSE <<"W">>

\* apply_rotation_correction, line 133: the swap is returned
rotation_swaps(rotation) == rotation \in {90, 270}

\* apply_rotation_correction
apply_rotation_correction(width, height, rotation) ==
    IF rotation_swaps(rotation) THEN <<height, width>> ELSE <<width, height>>

\* classify_video_properties; actual_fps is fps rounded to hundredths
classify_video_properties(width, height, fps100, rotation) ==
    LET corrected == apply_rotation_correction(width, height, rotation)
    IN  [resolution |-> classify_resolution(corrected[1], corrected[2]),
         orientation |-> classify_orientation(corrected[1], corrected[2]),
         framerate_category |-> classify_framerate(fps100),
         actual_fps100 |-> fps100,
         width |-> corrected[1], height |-> corrected[2]]

\* no swap made yet on either path
NoSwaps == [core |-> <<>>, tools |-> <<>>]

\* the values the classification variables keep in the other sessions
ClsIdle ==
    /\ probe = Probe("video", 0, 0, 0, 0)
    /\ vm = <<>>
    /\ core_out = <<>>
    /\ tools_out = <<>>
    /\ swaps = NoSwaps

----------------------------------------------------------------------------
(* MainWindow._dedupe_input_roots (gui/main_window.py); a path is the
   sequence of its parts, "/" first *)

\* the folders that exist, in canonical form
Existing ==
    {<<"/">>, <<"/", "a">>, <<"/", "a", "b">>, <<"/", "c">>}

\* the symbolic links: /l -> /a/b
Links == [p \in {<<"/", "l">>} |-> <<"/", "a", "b">>]

\* the order of the part names in comparisons
PartOrder == <<"/", "..", "a", "b", "c", "l", "x">>

PartRank(part) == CHOOSE i \in DOMAIN PartOrder : PartOrder[i] = part

\* Path.resolve(): ".." drops the last part, a link is replaced by its target
RECURSIVE resolve_from(_, _)
resolve_from(rest, cur) ==
    IF rest = <<>> THEN cur
    ELSE LET part == Head(rest)
             joined == cur \o <<part>>
             next == IF part = ".."
                        THEN IF Len(cur) > 1
                                 THEN SubSeq(cur, 1, Len(cur) - 1)
                                 ELSE cur
                     ELSE IF joined \in DOMAIN Links THEN Links[joined]
                     ELSE joined
         IN  resolve_from(Tail(rest), next)

resolve(path) == resolve_from(Tail(path), <<"/">>)

\* Path.exists() of a resolved path
path_exists(path) == path \in Existing

\* p == root or p.is_relative_to(root)
is_relative_to(p, root) ==
    /\ Len(root) <= Len(p)
    /\ SubSeq(p, 1, Len(root)) = root

\* lines 912-919: the resolved paths that exist, in input order
RECURSIVE normalize(_)
normalize(paths) ==
    IF paths = <<>> THEN <<>>
    ELSE LET resolved == resolve(Head(paths))
         IN  (IF path_exists(resolved) THEN <<resolved>> ELSE <<>>)
                \o normalize(Tail(paths))

\* set(normalized)
set_of(seq) == {seq[i] : i \in DOMAIN seq}

\* the sequences that hold every member of S once
Orderings(S) ==
    {q \in [1..Cardinality(S) -> S] : \A x \in S : \E i \in DOMAIN q : q[i] = x}

\* the orders in which a process may iterate sets of paths: a Path hashes as
\* its string, and string hashes change from one process to the next
HashOrders == Orderings(Existing)

\* iterating the set S in a process with the order hash_order
iterate(S, hash_order) ==
    LET Member(x) == x \in S
    IN  SelectSeq(hash_order, Member)

\* the members of seq with depth parts, in the order of seq
RECURSIVE of_depth(_, _)
of_depth(seq, depth) ==
    IF seq = <<>> THEN <<>>
    ELSE (IF Len(Head(seq)) = depth THEN <<Head(seq)>> ELSE <<>>)
            \o of_depth(Tail(seq), depth)

\* A variant that leaves the paths in iteration order.
sorted_by_parts_Unsorted(seq, depth) == seq

\* sorted(seq, key=lambda path: len(path.parts)): a stable sort; depth is
\* the smallest key
RECURSIVE sorted_by_parts(_, _)
sorted_by_parts(seq, depth) ==
    IF \A i \in DOMAIN seq : Len(seq[i]) < depth THEN <<>>
    ELSE of_depth(seq, depth) \o sorted_by_parts(seq, depth + 1)

\* lines 921-926: keep a path unless a kept root contains it
RECURSIVE keep_roots(_, _)
keep_roots(sorted, roots) ==
    IF sorted = <<>> THEN roots
    ELSE LET p == Head(sorted)
         IN  IF \E i \in DOMAIN roots : is_relative_to(p, roots[i])
             THEN keep_roots(Tail(sorted), roots)
             ELSE keep_roots(Tail(sorted), Append(roots, p))

\* _dedupe_input_roots in a process with the order hash_order
dedupe_input_roots(paths, hash_order) ==
    LET normalized == normalize(paths)
        iteration == iterate(set_of(normalized), hash_order)
    IN  keep_roots(sorted_by_parts(iteration, 1), <<>>)

\* the values the input-root variables keep in the other sessions
RootsIdle ==
    /\ inputs = <<>>
    /\ runs = <<>>

----------------------------------------------------------------------------
(* The batch pipelines: ScanWorker (gui/main_window.py),
   VideoProcessorThread (video_tools/gui/video_sorter.py) and process_folder
   (video_tools/cli/batch_processor.py) *)

Pipelines == {"ScanWorker", "VideoProcessorThread", "process_folder"}

\* the pipelines that run as a QThread with a stop flag
Threads == {"ScanWorker", "VideoProcessorThread"}

BatchPaths == {"clip1.mp4", "clip2.mp4", "notes.txt"}

\* Path.name of each path
path_name ==
    [p \in BatchPaths |->
        IF p = "clip1.mp4" THEN <<"c", "l", "i", "p", "1", ".", "m", "p", "4">>
        ELSE IF p = "clip2.mp4"
            THEN <<"c", "l", "i", "p", "2", ".", "m", "p", "4">>
        ELSE <<"n", "o", "t", "e", "s", ".", "t", "x", "t">>]

\* process_folder: valid_exts
valid_exts ==
    {<<".", "m", "p", "4">>, <<".", "m", "o", "v">>, <<".", "a", "v", "i">>,
     <<".", "m", "k", "v">>, <<".", "m", "4", "v">>, <<".", "m", "t", "s">>,
     <<".", "f", "l", "v">>, <<".", "w", "m", "v">>}

\* os.path.splitext(filename)[1].lower() in valid_exts
has_valid_ext(name) ==
    LET ext == suffix(name)
    IN  [i \in DOMAIN ext |-> lower(ext[i])] \in valid_exts

\* the fallback classification
Fallback == <<<<"S", "D">>, <<"W">>, 30>>

\* A variant of the worker's loop test that ignores the flag.
keeps_going_Always(flag) == TRUE

\* ScanWorker.run line 181, VideoProcessorThread.run line 50: the loop goes
\* on to the next file
keeps_going(flag) == flag

\* ScanWorker.run lines 185-205: the records emitted for one file; an
\* exception from extract or classify gives the fallback and no metadata
scan_result(path, pr, is_dup) ==
    IF pr.kind = "error"
        THEN <<[filepath |-> path, filename |-> path_name[path],
                resolution |-> Fallback[1], orientation |-> Fallback[2],
                fps |-> Fallback[3], width |-> 0, height |-> 0,
                iphone |-> <<>>, has_gps |-> FALSE, has_camera |-> FALSE,
                is_duplicate |-> is_dup]>>
    ELSE LET meta == extract(pr)
             c == classify(meta)
         IN  <<[filepath |-> path, filename |-> path_name[path],
                resolution |-> c[1], orientation |-> c[2], fps |-> c[3],
                width |-> meta.width, height |-> meta.height,
                iphone |-> meta.iphone_model, has_gps |-> meta.has_gps,
                has_camera |-> meta.has_camera_lens,
                is_duplicate |-> is_dup]>>

\* _get_video_metadata: success only for a probe with a video stream; every
\* exception is caught
get_video_metadata(pr) ==
    IF pr.kind = "video"
        THEN [success |-> TRUE, width |-> pr.width, height |-> pr.height,
              fps100 |-> pr.fps100, rotation |-> pr.rotation,
              make |-> IF pr.iphone_model = <<>> THEN <<>>
                       ELSE <<"A", "p", "p", "l", "e">>,
              model |-> pr.iphone_model, has_camera |-> pr.has_camera_lens,
              has_gps |-> pr.has_gps]
    ELSE [success |-> FALSE, error |-> pr.kind]

\* classify_video; the record returned on failure has no filepath
classify_video(file_path, pr) ==
    LET metadata == get_video_metadata(pr)
    IN  IF ~metadata.success
        THEN [resolution |-> Fallback[1], orientation |-> Fallback[2],
              framerate_category |-> Fallback[3], actual_fps100 |-> 0,
              width |-> 0, height |-> 0, make |-> <<>>, model |-> <<>>,
              has_camera |-> FALSE, has_gps |-> FALSE, success |-> FALSE,
              error |-> metadata.error]
        ELSE LET actual == apply_rotation_correction(metadata.width,
                                                     metadata.height,
                                                     metadata.rotation)
             IN  [resolution |-> classify_resolution(actual[1], actual[2]),
                  orientation |-> classify_orientation(actual[1], actual[2]),
                  framerate_category |-> classify_framerate(metadata.fps100),
                  actual_fps100 |-> metadata.fps100,
                  width |-> actual[1], height |-> actual[2],
                  make |-> metadata.make, model |-> metadata.model,
                  has_camera |-> metadata.has_camera,
                  has_gps |-> metadata.has_gps, success |-> TRUE,
                  error |-> <<>>, filepath |-> file_path]

\* the values the batch variables keep in the other sessions
BatchIdle ==
    /\ pipeline = "ScanWorker"
    /\ files = <<>>
    /\ probes = [p \in BatchPaths |-> Probe("error", 0, 0, 0, 0)]
    /\ running = TRUE
    /\ idx = 1
    /\ bpc = "finished"
    /\ signals = <<>>
    /\ results = <<>>

----------------------------------------------------------------------------
(* Inputs of the Organizer session *)

\* the get_destination calls of one session
MaxCalls == 2

\* the counter values of the files an earlier run may have left on disk
MaxPre == 1

\* the loop is followed up to this counter value; every file on disk is a
\* file of the earlier run or a returned path, so a loop that gets here with
\* its path still taken is a loop over one unchanging name
MaxCounter == MaxCalls + MaxPre + 1

Trip == <<"T", "r", "i", "p">>

\* a prefix as long as max_len
LongPrefix == [i \in 1..max_len |-> "x"]

Prefixes == {<<>>, Trip, LongPrefix}

\* "my:file?.mov"
MyFile == <<"m", "y", ":", "f", "i", "l", "e", "?", ".", "m", "o", "v">>

\* a stem as long as max_len, with an upper-case extension
LongFile == [i \in 1..max_len |-> "v"] \o <<".", "M", "P", "4">>

FileNames == {MyFile, LongFile}

\* 1920x1080 at 59.94 fps from an iPhone 15, edited, with GPS and lens tags
Meta1080W60 ==
    [width |-> 1920, height |-> 1080, rotation |-> 0, fps100 |-> 5994,
     iphone_model |-> <<"1", "5">>, has_gps |-> TRUE, is_edited |-> TRUE,
     has_camera_lens |-> TRUE]

\* 1080x1920 at 30 fps, no tags
Meta1080V30 ==
    [width |-> 1080, height |-> 1920, rotation |-> 0, fps100 |-> 3000,
     iphone_model |-> <<>>, has_gps |-> FALSE, is_edited |-> FALSE,
     has_camera_lens |-> FALSE]

\* 3840x2160 at 30 fps, no tags
Meta4KW30 ==
    [width |-> 3840, height |-> 2160, rotation |-> 0, fps100 |-> 3000,
     iphone_model |-> <<>>, has_gps |-> FALSE, is_edited |-> FALSE,
     has_camera_lens |-> FALSE]

Metas == {Meta1080W60, Meta1080V30, Meta4KW30}

NoCounters == [k \in {} |-> 0]

\* no call in progress
Idle ==
    [file |-> <<>>, meta |-> Meta1080W60, start |-> 0, counter |-> 0,
     path |-> <<<<>>, <<>>>>]

\* the counter key of the call in progress
CallKey == key_of(mode, call.meta)

\* the values the DuplicateFinder variables keep in an Organizer session
DupIdle ==
    /\ fs = [p \in Paths |-> [kind |-> "missing", data |-> Empty]]
    /\ file_hashes = EmptyIndex
    /\ last = NoCall
    /\ log = <<>>

\* the values the Organizer variables keep in a DuplicateFinder session
OrgIdle ==
    /\ mode = "ProVid"
    /\ prefix = <<>>
    /\ counters = NoCounters
    /\ disk = {}
    /\ dirs = {}
    /\ pc = "idle"
    /\ call = Idle
    /\ dests = <<>>

\* Organizer.__init__; the disk holds what an earlier run with the same mode
\* and prefix left behind: for every input, the files numbered by S
InitOrg ==
    /\ mode \in SortModes
    /\ prefix \in Prefixes
    /\ counters = NoCounters
    /\ \E S \in SUBSET (1..MaxPre) :
          disk = {dest_path(mode, prefix, f, md, c) :
                     f \in FileNames, md \in Metas, c \in S}
    /\ dirs = {}
    /\ pc = "idle"
    /\ call = Idle
    /\ dests = <<>>
    /\ DupIdle
    /\ ClsIdle
    /\ RootsIdle
    /\ BatchIdle
    /\ SanIdle
    /\ ScanIdle
    /\ TreeIdle

\* get_destination, lines 46-104: classify, create the folder, pick the first
\* counter value and compose its path
GetDestinationEnter(f, md) ==
    /\ pc = "idle"
    /\ Len(dests) < MaxCalls
    /\ LET c == classify(md)
           key == format_key(mode, c[1], c[2], c[3])
           first == first_counter(counters, key)
       IN  /\ dirs' = dirs \cup {subfolder_of(mode, c[1], c[2], c[3])}
           /\ call' = [file |-> f, meta |-> md, start |-> first,
                       counter |-> first,
                       path |-> dest_path(mode, prefix, f, md, first)]
    /\ pc' = "loop"
    /\ UNCHANGED <<mode, prefix, counters, disk, dests>>
    /\ UNCHANGED notOrgVars

\* lines 106-110 and 81-104, the path is taken: counter += 1, compose again
GetDestinationRetry ==
    /\ pc = "loop"
    /\ exists(disk, call.path)
    /\ call.counter < MaxCounter
    /\ call' = [call EXCEPT
                  !.counter = @ + 1,
                  !.path = dest_path(mode, prefix, call.file, call.meta,
                                     call.counter + 1)]
    /\ UNCHANGED <<mode, prefix, counters, disk, dirs, pc, dests>>
    /\ UNCHANGED notOrgVars

\* lines 106-108, the pass whose path is free: store the counter, return
GetDestinationReturn ==
    /\ pc = "loop"
    /\ ~exists(disk, call.path)
    /\ counters' = store_counter(counters, CallKey, call.start, call.counter)
    /\ dests' = Append(dests, [cat |-> classify(call.meta), key |-> CallKey,
                               start |-> call.start,
                               counter |-> call.counter, path |-> call.path,
                               written |-> FALSE])
    /\ pc' = "idle"
    /\ call' = Idle
    /\ UNCHANGED <<mode, prefix, disk, dirs>>
    /\ UNCHANGED notOrgVars

\* the caller writes the file it asked a destination for (first.write_bytes
\* in the test)
WriteReturned(i) ==
    /\ pc = "idle"
    /\ i \in DOMAIN dests
    /\ ~dests[i].written
    /\ disk' = disk \cup {dests[i].path}
    /\ dests' = [dests EXCEPT ![i].written = TRUE]
    /\ UNCHANGED <<mode, prefix, counters, dirs, pc, call>>
    /\ UNCHANGED notOrgVars

NextOrg ==
    \/ \E f \in FileNames, md \in Metas : GetDestinationEnter(f, md)
    \/ GetDestinationRetry
    \/ GetDestinationReturn
    \/ \E i \in 1..MaxCalls : WriteReturned(i)

SpecOrg == InitOrg /\ [][NextOrg]_vars

----------------------------------------------------------------------------
(* One DuplicateFinder session over a fixed set of files *)

InSeq(s, x) == \E i \in DOMAIN s : s[i] = x

\* what the file is to a reader that gets through: its size and first MiB
Fingerprint(st) == <<st_size(st.data), read(st.data, ChunkSize)>>

\* DuplicateFinder.__init__, and the files as they are when the scan starts
InitDup ==
    /\ fs \in [Paths -> FileStates]
    /\ file_hashes = EmptyIndex
    /\ last = NoCall
    /\ log = <<>>
    /\ OrgIdle
    /\ ClsIdle
    /\ RootsIdle
    /\ BatchIdle
    /\ SanIdle
    /\ ScanIdle
    /\ TreeIdle

IsDuplicateCall(p, io) ==
    LET out == is_duplicate(file_hashes, fs[p], p, io)
        entry == <<p>> \o Fingerprint(fs[p])
    IN  /\ file_hashes' = out.index
        /\ last' = [op |-> "is_duplicate", path |-> p,
                    io |-> io,
                    retb |-> out.ret, retp |-> p, raised |-> out.raised]
        /\ log' = IF is_file(fs[p]) /\ io.statOk /\ io.readOk
                     /\ ~InSeq(log, entry)
                  THEN Append(log, entry)
                  ELSE log
        /\ UNCHANGED fs
        /\ UNCHANGED notDupVars

GetOriginalCall(p, io) ==
    LET out == get_original(file_hashes, fs[p], p, io)
    IN  /\ file_hashes' = out.index
        /\ last' = [op |-> "get_original", path |-> p,
                    io |-> io,
                    retb |-> FALSE, retp |-> out.ret, raised |-> out.raised]
        /\ UNCHANGED <<fs, log>>
        /\ UNCHANGED notDupVars

NextDup ==
    \/ \E p \in Paths : \E io \in IoOutcomes(fs[p]) : IsDuplicateCall(p, io)
    \/ \E p \in Paths : \E io \in IoOutcomes(fs[p]) : GetOriginalCall(p, io)

SpecDup == InitDup /\ [][NextDup]_vars

----------------------------------------------------------------------------
(* Properties of the DuplicateFinder session *)

\* the call got through to the file's bytes: a regular file, stat() and
\* open()/read() succeeded
Readable(c) == is_file(fs[c.path]) /\ c.io.statOk /\ c.io.readOk

\* the earlier is_duplicate calls on readable files with fingerprint fp
SeenBefore(fp) == {i \in DOMAIN log : <<log[i][2], log[i][3]>> = fp}

\* the path of the earliest of them
FirstSeen(fp) ==
    log[CHOOSE i \in SeenBefore(fp) : \A j \in SeenBefore(fp) : i <= j][1]

\* the key is_duplicate computes for a readable file
KeyOf(st) ==
    file_key(st_size(st.data), compute_partial_hash(st, ChunkSize, TRUE))

\* C1: for non-empty readable files, is_duplicate on the first file with a
\* given size and first MiB returns False; is_duplicate on a different file
\* with the same size and first MiB returns True; get_original on such a file
\* returns the path of the first.
C1_SecondIsDuplicateOfFirst ==
    [][LET c == last'
           st == fs[c.path]
           fp == Fingerprint(st)
       IN  (Readable(c) /\ st.data # Empty) =>
             /\ (c.op = "is_duplicate" /\ SeenBefore(fp) = {})
                    => c.retb = FALSE
             /\ (c.op = "is_duplicate" /\ SeenBefore(fp) # {}
                   /\ FirstSeen(fp) # c.path)
                    => c.retb = TRUE
             /\ (c.op = "get_original" /\ SeenBefore(fp) # {})
                    => c.retp = FirstSeen(fp)]_vars

\* C1 witness: a.mov and b.mov have the same size and first MiB and differ in
\* their last byte; after is_duplicate on both, get_original(b.mov) gave a.mov.
C1_Witness ==
    /\ fs["a.mov"].data = Long1 /\ fs["b.mov"].data = Long2
    /\ is_file(fs["a.mov"]) /\ is_file(fs["b.mov"])
    /\ Len(log) = 2 /\ log[1][1] = "a.mov" /\ log[2][1] = "b.mov"
    /\ last.op = "get_original" /\ last.path = "b.mov" /\ last.retp = "a.mov"

\* C2: no step removes or replaces an entry of the index; an is_duplicate call
\* whose key is already in the index, and every get_original call, leaves the
\* index as it was.
C2_IndexOnlyGrows ==
    [][/\ \A k \in DOMAIN file_hashes :
             k \in DOMAIN file_hashes' /\ file_hashes'[k] = file_hashes[k]
       /\ (/\ last'.op = "is_duplicate" /\ Readable(last')
           /\ KeyOf(fs[last'.path]) \in DOMAIN file_hashes)
              => file_hashes' = file_hashes
       /\ last'.op = "get_original" => file_hashes' = file_hashes]_vars

\* C2 witness: is_duplicate hit a key that another path had stored, and the
\* stored path is still that other path.
C2_Witness ==
    /\ last.op = "is_duplicate" /\ Readable(last) /\ last.retb
    /\ KeyOf(fs[last.path]) \in DOMAIN file_hashes
    /\ file_hashes[KeyOf(fs[last.path])] # last.path

\* C9: a call on a path that is not a readable regular file (missing, not a
\* regular file, stat() refused or failing, content unreadable) raises
\* nothing; is_duplicate returns False and leaves the index unchanged;
\* get_original returns the path it was given.
C9_UnreadableFailsOpen ==
    [][LET c == last'
       IN  ~Readable(c) =>
             /\ ~c.raised
             /\ c.op = "is_duplicate"
                    => c.retb = FALSE /\ file_hashes' = file_hashes
             /\ c.op = "get_original" => c.retp = c.path]_vars

\* C10: is_duplicate on a zero-byte file returns False and leaves the index
\* unchanged, and no path stored in the index is a zero-byte file.
C10_EmptyNeverDuplicate ==
    /\ [][LET c == last'
          IN  (c.op = "is_duplicate" /\ is_file(fs[c.path])
                 /\ fs[c.path].data = Empty)
                => c.retb = FALSE /\ file_hashes' = file_hashes]_vars
    /\ [](\A k \in DOMAIN file_hashes :
             k[1] > 0 /\ fs[file_hashes[k]].data # Empty)

\* C10 witness: is_duplicate read two zero-byte files, one after the other.
C10_Witness ==
    /\ Len(log) >= 2
    /\ log[1][1] # log[2][1] /\ log[1][2] = 0 /\ log[2][2] = 0
    /\ last.op = "is_duplicate" /\ last.path = log[2][1] /\ Readable(last)

----------------------------------------------------------------------------
(* Properties of the Organizer session *)

\* the step on which get_destination returns
Returns == pc = "loop" /\ pc' = "idle"

\* the step on which get_destination is entered
Enters == pc = "idle" /\ pc' = "loop"

\* what the returning call appends to dests
Returned == dests'[Len(dests')]

\* the path the call in progress composes for counter value c
PathFor(c) == dest_path(mode, prefix, call.file, call.meta, c)

\* the three-part category string of a classification
ThreePart(cat) == cat[1] \o <<"|">> \o cat[2] \o <<"|">> \o str_int(cat[3])

\* the finished calls of category cat
CallsOf(cat) == {i \in DOMAIN dests : dests[i].cat = cat}

\* the loop stops at MaxCounter only where the composed name is longer than
\* max_len and the cut has left the same name for every counter value
CapOnlyOnTruncatedName ==
    (pc = "loop" /\ call.counter = MaxCounter /\ exists(disk, call.path))
        => /\ Len(name_base(mode, prefix, call.file, call.meta, 1)) > max_len
           /\ \A c \in (1..MaxCounter) \cup {99, 100, 999, 1000, 123456} :
                 PathFor(c) = call.path

\* C3: any two get_destination calls of one session return different paths.
C3_AllDestinationsDiffer ==
    \A i, j \in DOMAIN dests : i # j => dests[i].path # dests[j].path

\* C4: two get_destination calls for the same category return different
\* file names.
C4_SameCategoryDifferentNames ==
    \A i, j \in DOMAIN dests :
        (i # j /\ dests[i].cat = dests[j].cat)
            => dests[i].path[2] # dests[j].path[2]

\* C5: a returning call returns the path composed for the smallest counter
\* value, from the stored value plus one on, whose path is not on disk; that
\* path is not on disk when it is returned, and that value is stored for the
\* category.
C5_SkipsToFirstFree ==
    [][Returns =>
         LET d == Returned
         IN  /\ ~(d.path \in disk)
             /\ d.path = PathFor(d.counter)
             /\ d.start = dict_get(counters, ThreePart(d.cat), 0) + 1
             /\ d.counter >= d.start
             /\ \A c \in d.start..(d.counter - 1) : PathFor(c) \in disk
             /\ counters'[ThreePart(d.cat)] = d.counter]_vars

\* C5 witness: a call found the paths of two counter values on disk and
\* returned the third.
C5_Witness ==
    \E i \in DOMAIN dests : dests[i].counter >= dests[i].start + 2

\* C6: get_destination terminates: whenever a call is in its loop, the
\* counter value it is at or a later one composes a path that is not on disk,
\* so that the loop gets to it and returns.
C6_LoopReachesFreeName ==
    pc = "loop" =>
        \E c \in call.counter..MaxCounter : ~exists(disk, PathFor(c))

\* C7: no counter ever decreases or disappears; the counters change only on
\* the step that returns a path, which sets the counter of the call's own
\* category to the value used in the returned name, a value greater than the
\* one stored before, and changes no other.
C7_CountersOnlyAdvance ==
    [][/\ \A k \in DOMAIN counters :
             k \in DOMAIN counters' /\ counters'[k] >= counters[k]
       /\ counters' # counters => Returns
       /\ Returns =>
            LET d == Returned
                key == ThreePart(classify(call.meta))
            IN  /\ d.path = PathFor(d.counter)
                /\ counters' = dict_set(counters, key, d.counter)
                /\ d.counter > dict_get(counters, key, 0)]_vars

\* C7 witness: a category's counter was stored twice, the second value above
\* the first.
C7_Witness ==
    /\ Len(dests) = 2 /\ dests[1].cat = dests[2].cat
    /\ dests[2].counter > dests[1].counter
    /\ counters[dests[2].key] = dests[2].counter

\* C8: in every mode the counter key is the three-part string; a call starts
\* from 1 when its category has no finished call in the session, else from
\* the category's last counter plus one, whatever the other categories did;
\* and it leaves the counters of all other categories unchanged.
C8_ThreePartKeyInEveryMode ==
    [][/\ Enters =>
            LET cat == classify(call'.meta)
            IN  /\ CallsOf(cat) = {} => call'.start = 1
                /\ \A i \in CallsOf(cat) :
                      (\A j \in CallsOf(cat) : j <= i)
                          => call'.start = dests[i].counter + 1
       /\ Returns =>
            /\ Returned.key = ThreePart(classify(call.meta))
            /\ DOMAIN counters' = DOMAIN counters \cup {Returned.key}
            /\ \A k \in DOMAIN counters :
                  k # ThreePart(classify(call.meta))
                      => counters'[k] = counters[k]]_vars

\* C8 witness: in VidRes mode two files of the same tier and different
\* orientation each started from counter 1.
C8_Witness ==
    /\ mode = "VidRes" /\ Len(dests) = 2
    /\ dests[1].cat[1] = dests[2].cat[1] /\ dests[1].cat[2] # dests[2].cat[2]
    /\ dests[1].start = 1 /\ dests[2].start = 1
    /\ dests[1].path[1] = dests[2].path[1]

----------------------------------------------------------------------------
(* Classification of one probed video, on both paths: MetadataExtractor and
   VideoClassifier (core), classify_video_properties (video_tools) *)

\* widths and heights around every threshold classify compares with
Dims ==
    {0, 480, 720, 1079, 1080, 1081, 1280, 1440, 1920, 2159, 2160, 3839,
     3840, 4096}

\* frame rates in hundredths: 0, 29.97, 45.00, 45.01, 59.94, 120
Rates == {0, 2997, 4500, 4501, 5994, 12000}

Rotations == {0, 90, 180, 270}

InitCls ==
    /\ \E w \in Dims, h \in Dims, r \in Rotations, f \in Rates :
          probe = Probe("video", w, h, r, f)
    /\ vm = <<>>
    /\ core_out = <<>>
    /\ tools_out = <<>>
    /\ swaps = NoSwaps
    /\ DupIdle
    /\ OrgIdle
    /\ RootsIdle
    /\ BatchIdle
    /\ SanIdle
    /\ ScanIdle
    /\ TreeIdle

\* a caller builds the VideoMetadata record from the values it has, as
\* _sample_metadata does in the tests
MakeRecord ==
    /\ vm = <<>>
    /\ vm' = <<[via |-> "caller",
                rec |-> VideoMetadata(probe.width, probe.height,
                                      probe.rotation, probe.fps100,
                                      probe.iphone_model, probe.has_gps,
                                      probe.is_edited,
                                      probe.has_camera_lens)]>>
    /\ UNCHANGED <<probe, core_out, tools_out, swaps>>
    /\ UNCHANGED notClsVars

\* MetadataExtractor.extract
ExtractCall ==
    /\ vm = <<>>
    /\ vm' = <<[via |-> "extract", rec |-> extract(probe)]>>
    /\ swaps' = IF extract_swaps(probe)
                THEN [swaps EXCEPT !.core = Append(@, "extraction")]
                ELSE swaps
    /\ UNCHANGED <<probe, core_out, tools_out>>
    /\ UNCHANGED notClsVars

\* VideoClassifier.classify on the record; it reads width, height and fps
ClassifyCall ==
    /\ vm # <<>>
    /\ core_out = <<>>
    /\ core_out' = <<classify(vm[1].rec)>>
    /\ UNCHANGED <<probe, vm, tools_out, swaps>>
    /\ UNCHANGED notClsVars

\* classify_video_properties on the probed values, as classify_video calls
\* its steps (lines 278-293)
ClassifyPropertiesCall ==
    /\ tools_out = <<>>
    /\ tools_out' = <<classify_video_properties(probe.width, probe.height,
                                                probe.fps100,
                                                probe.rotation)>>
    /\ swaps' = IF rotation_swaps(probe.rotation)
                THEN [swaps EXCEPT !.tools = Append(@, "classification")]
                ELSE swaps
    /\ UNCHANGED <<probe, vm, core_out>>
    /\ UNCHANGED notClsVars

NextCls ==
    \/ MakeRecord
    \/ ExtractCall
    \/ ClassifyCall
    \/ ClassifyPropertiesCall

SpecCls == InitCls /\ [][NextCls]_vars

----------------------------------------------------------------------------
(* Properties of the classification *)

Larger(a, b) == IF a >= b THEN a ELSE b

\* the tier cascade over an unordered pair of dimensions
Tier(w, h) ==
    IF Larger(w, h) >= 2160 THEN <<"4", "K">>
    ELSE IF {w, h} \cap {1920, 1080} # {} THEN <<"1", "0", "8", "0", "p">>
    ELSE IF {w, h} \cap {1280, 720} # {} THEN <<"7", "2", "0", "p">>
    ELSE IF Larger(w, h) > 1080 THEN <<"H", "D">>
    ELSE <<"S", "D">>

\* C15: the tier VideoClassifier.classify gives a record, and the tier
\* classify_resolution gives the dimensions it is called with, is the
\* cascade 4K (a dimension >= 2160), 1080p (a dimension 1920 or 1080), 720p
\* (1280 or 720), HD (a dimension > 1080), SD; a dimension >= 2160 gives 4K
\* whatever the other one is.
C15_TierIsPriorityCascade ==
    /\ core_out # <<>> =>
         LET w == vm[1].rec.width
             h == vm[1].rec.height
         IN  /\ core_out[1][1] = Tier(w, h)
             /\ (w >= 2160 \/ h >= 2160) => core_out[1][1] = <<"4", "K">>
    /\ tools_out # <<>> =>
         LET w == tools_out[1].width
             h == tools_out[1].height
         IN  /\ tools_out[1].resolution = Tier(w, h)
             /\ (w >= 2160 \/ h >= 2160)
                   => tools_out[1].resolution = <<"4", "K">>

\* C15 witness: 1080 by 2160 classified 4K by both, although 1080 matches
\* the 1080p test.
C15_Witness ==
    /\ probe.width = 1080 /\ probe.height = 2160 /\ probe.rotation = 0
    /\ core_out # <<>> /\ core_out[1][1] = <<"4", "K">>
    /\ tools_out # <<>> /\ tools_out[1].resolution = <<"4", "K">>

\* C16: the frame-rate bucket is 60 when fps > 45 and 30 otherwise, in
\* VideoClassifier.classify and in classify_framerate; 45.00 gives 30 and
\* 45.01 gives 60.
C16_BucketBoundaryExclusive ==
    /\ core_out # <<>> =>
         core_out[1][3] = IF vm[1].rec.fps100 > 4500 THEN 60 ELSE 30
    /\ tools_out # <<>> =>
         /\ tools_out[1].framerate_category
               = IF probe.fps100 > 4500 THEN 60 ELSE 30
         /\ probe.fps100 = 4500 => tools_out[1].framerate_category = 30
         /\ probe.fps100 = 4501 => tools_out[1].framerate_category = 60

\* C16 witness: 45.00 fps classified 30 by both.
C16_Witness ==
    /\ probe.fps100 = 4500
    /\ core_out # <<>> /\ core_out[1][3] = 30
    /\ tools_out # <<>> /\ tools_out[1].framerate_category = 30

\* C17: for rotation 90 or 270, VideoClassifier.classify of the record
\* (w, h, rotation) and classify_video_properties of (w, h, rotation) give
\* the orientation of (h, w) without rotation.
C17_RotationSwapsOrientation ==
    LET Turned(r) == r \in {90, 270}
    IN  /\ (core_out # <<>> /\ Turned(vm[1].rec.rotation))
             => core_out[1][2]
                  = classify(VideoMetadata(vm[1].rec.height, vm[1].rec.width,
                                           0, vm[1].rec.fps100, <<>>, FALSE,
                                           FALSE, FALSE))[2]
        /\ (tools_out # <<>> /\ Turned(probe.rotation))
             => tools_out[1].orientation
                  = classify_video_properties(probe.height, probe.width,
                                              probe.fps100, 0).orientation

\* C18: the record MetadataExtractor.extract returns holds width and height
\* as probed, and on each path from the probe to a classification the swap
\* for rotation 90 or 270 is made once, at classification, and never at
\* extraction.
C18_SwapOnceAtClassification ==
    LET Turned == probe.rotation \in {90, 270}
    IN  /\ (vm # <<>> /\ vm[1].via = "extract") =>
              /\ vm[1].rec.width = probe.width
              /\ vm[1].rec.height = probe.height
        /\ (core_out # <<>> /\ vm[1].via = "extract") =>
              swaps.core = IF Turned THEN <<"classification">> ELSE <<>>
        /\ tools_out # <<>> =>
              swaps.tools = IF Turned THEN <<"classification">> ELSE <<>>

----------------------------------------------------------------------------
(* _dedupe_input_roots called on one set of input paths *)

\* the paths a call is given
MaxInputs == 3

\* the calls made on the same inputs
MaxRuns == 2

\* spellings of existing folders (/c/../a is /a, /l is a link to /a/b) and
\* of a missing one (/x)
InputPaths ==
    {<<"/">>, <<"/", "a">>, <<"/", "a", "b">>, <<"/", "c">>, <<"/", "x">>,
     <<"/", "l">>, <<"/", "c", "..", "a">>}

InitRoots ==
    /\ \E n \in 0..MaxInputs : inputs \in [1..n -> InputPaths]
    /\ runs = <<>>
    /\ DupIdle
    /\ OrgIdle
    /\ ClsIdle
    /\ BatchIdle
    /\ SanIdle
    /\ ScanIdle
    /\ TreeIdle

\* one call, in some process, with the inputs as listed or in reverse
DedupeCall(reversed, hash_order) ==
    /\ Len(runs) < MaxRuns
    /\ LET paths == [i \in DOMAIN inputs |->
                       IF reversed THEN inputs[Len(inputs) + 1 - i]
                       ELSE inputs[i]]
       IN  runs' = Append(runs, dedupe_input_roots(paths, hash_order))
    /\ UNCHANGED inputs
    /\ UNCHANGED notRootVars

NextRoots ==
    \E reversed \in BOOLEAN, hash_order \in HashOrders :
        DedupeCall(reversed, hash_order)

SpecRoots == InitRoots /\ [][NextRoots]_vars

----------------------------------------------------------------------------
(* Properties of _dedupe_input_roots *)

\* the input paths that exist, resolved
ExistingInputs == {r \in {resolve(inputs[i]) : i \in DOMAIN inputs} : r \in Existing}

\* C19: the roots returned are existing canonical paths, none equal to or
\* nested under another, and every existing input path is equal to or nested
\* under a root; inputs /a, /a/b, /c give the roots /a and /c.
C19_RootsCoverWithoutNesting ==
    \A k \in DOMAIN runs :
        LET roots == runs[k]
        IN  /\ \A i \in DOMAIN roots : roots[i] \in ExistingInputs
            /\ \A i, j \in DOMAIN roots :
                  i # j => ~is_relative_to(roots[i], roots[j])
            /\ \A p \in ExistingInputs :
                  \E i \in DOMAIN roots : is_relative_to(p, roots[i])
            /\ set_of(inputs) = {<<"/", "a">>, <<"/", "a", "b">>, <<"/", "c">>}
                  => set_of(roots) = {<<"/", "a">>, <<"/", "c">>}

\* C19 witness: a call on /a/b, /c, /a returned two roots, /a and /c.
C19_Witness ==
    /\ inputs = << <<"/", "a", "b">>, <<"/", "c">>, <<"/", "a">> >>
    /\ runs # <<>>
    /\ Len(runs[1]) = 2
    /\ set_of(runs[1]) = {<<"/", "a">>, <<"/", "c">>}

\* p sorts before q: fewer parts, or as many and lexicographically smaller
RECURSIVE LexLess(_, _)
LexLess(p, q) ==
    IF p = <<>> THEN q # <<>>
    ELSE IF q = <<>> THEN FALSE
    ELSE IF Head(p) # Head(q) THEN PartRank(Head(p)) < PartRank(Head(q))
    ELSE LexLess(Tail(p), Tail(q))

DepthLexLess(p, q) ==
    \/ Len(p) < Len(q)
    \/ Len(p) = Len(q) /\ LexLess(p, q)

\* C20: the roots come out ordered by depth and, at equal depth,
\* lexicographically, so all calls on the same set of inputs return the same
\* sequence.
C20_OrderIsDeterministic ==
    /\ \A k \in DOMAIN runs :
          \A i, j \in DOMAIN runs[k] :
              i < j => DepthLexLess(runs[k][i], runs[k][j])
    /\ \A k, m \in DOMAIN runs : runs[k] = runs[m]

----------------------------------------------------------------------------
(* One batch run over a list of files, and the Organizer called on the
   results of a finished ScanWorker *)

\* the files of one batch
MaxFiles == 3

\* what a listed file is: its state on disk and what the probe reports
Clip ==
    [file |-> [kind |-> "file", data |-> Small1],
     probe |-> Probe("video", 1920, 1080, 0, 3000)]

Turned ==
    [file |-> [kind |-> "file", data |-> Small2],
     probe |-> Probe("video", 1920, 1080, 90, 5994)]

NoStream ==
    [file |-> [kind |-> "file", data |-> Small2],
     probe |-> Probe("no_stream", 0, 0, 0, 0)]

Broken ==
    [file |-> [kind |-> "file", data |-> Long1],
     probe |-> Probe("error", 0, 0, 0, 0)]

Locked ==
    [file |-> [kind |-> "denied", data |-> Empty],
     probe |-> Probe("error", 0, 0, 0, 0)]

Unlisted ==
    [file |-> [kind |-> "missing", data |-> Empty],
     probe |-> Probe("error", 0, 0, 0, 0)]

Profiles == {Clip, Turned, NoStream, Broken, Locked}

\* the lists of distinct paths
FileLists ==
    UNION {{q \in [1..n -> BatchPaths] :
               \A i, j \in 1..n : i # j => q[i] # q[j]} : n \in 0..MaxFiles}

\* ScanWorker.__init__, VideoProcessorThread.__init__, the entry of
\* process_folder; the Organizer of the end-to-end run is in MaxVid mode
InitBatch ==
    /\ pipeline \in Pipelines
    /\ files \in FileLists
    /\ \E prof \in [BatchPaths -> Profiles] :
          LET Of(p) == IF \E i \in DOMAIN files : files[i] = p
                       THEN prof[p] ELSE Unlisted
          IN  /\ fs = [p \in BatchPaths |-> Of(p).file]
              /\ probes = [p \in BatchPaths |-> Of(p).probe]
    /\ running = TRUE
    /\ idx = 1
    /\ bpc = "check"
    /\ signals = <<>>
    /\ results = <<>>
    /\ file_hashes = EmptyIndex
    /\ last = NoCall
    /\ log = <<>>
    /\ mode = "MaxVid"
    /\ prefix \in IF pipeline = "ScanWorker" THEN {<<>>, LongPrefix}
                  ELSE {<<>>}
    /\ counters = NoCounters
    /\ disk = {}
    /\ dirs = {}
    /\ pc = "idle"
    /\ call = Idle
    /\ dests = <<>>
    /\ ClsIdle
    /\ RootsIdle
    /\ SanIdle
    /\ ScanIdle
    /\ TreeIdle

\* stop(): another thread clears the flag while the worker runs
Stop ==
    /\ pipeline \in Threads
    /\ bpc \in {"check", "work"}
    /\ running
    /\ running' = FALSE
    /\ UNCHANGED <<pipeline, files, probes, idx, bpc, signals, results>>
    /\ UNCHANGED <<file_hashes, notBatchVars>>

\* the top of the worker's loop with a file left and the flag set:
\* progress.emit(i + 1, total)
LoopNext ==
    /\ pipeline \in Threads
    /\ bpc = "check"
    /\ idx <= Len(files)
    /\ keeps_going(running)
    /\ signals' = Append(signals, <<"progress", idx, Len(files)>>)
    /\ bpc' = "work"
    /\ UNCHANGED <<pipeline, files, probes, running, idx, results>>
    /\ UNCHANGED <<file_hashes, notBatchVars>>

\* the top of the loop with a file left and the flag cleared: ScanWorker
\* returns, VideoProcessorThread breaks and emits finished
LoopStopped ==
    /\ pipeline \in Threads
    /\ bpc = "check"
    /\ idx <= Len(files)
    /\ ~keeps_going(running)
    /\ IF pipeline = "ScanWorker"
       THEN bpc' = "returned" /\ signals' = signals
       ELSE bpc' = "finished" /\ signals' = Append(signals, <<"done">>)
    /\ UNCHANGED <<pipeline, files, probes, running, idx, results>>
    /\ UNCHANGED <<file_hashes, notBatchVars>>

\* the loop is over: done.emit() / finished.emit(); process_folder writes
\* its report
LoopEnd ==
    /\ bpc = "check"
    /\ idx > Len(files)
    /\ bpc' = "finished"
    /\ signals' = Append(signals, IF pipeline \in Threads THEN <<"done">>
                                  ELSE <<"report", Len(results)>>)
    /\ UNCHANGED <<pipeline, files, probes, running, idx, results>>
    /\ UNCHANGED <<file_hashes, notBatchVars>>

\* ScanWorker.run lines 184-205 for one file; an exception from
\* is_duplicate is not caught and ends run()
ScanWorkerFile(io) ==
    /\ pipeline = "ScanWorker"
    /\ bpc = "work"
    /\ io \in IoOutcomes(fs[files[idx]])
    /\ LET fp == files[idx]
           out == is_duplicate(file_hashes, fs[fp], fp, io)
           emitted == scan_result(fp, probes[fp], out.ret)
       IN  IF out.raised
           THEN /\ bpc' = "crashed"
                /\ UNCHANGED <<file_hashes, idx, signals, results>>
           ELSE /\ file_hashes' = out.index
                /\ results' = results \o emitted
                /\ signals' = signals \o [i \in DOMAIN emitted |->
                                             <<"result", idx>>]
                /\ idx' = idx + 1
                /\ bpc' = "check"
    /\ UNCHANGED <<pipeline, files, probes, running>>
    /\ UNCHANGED notBatchVars

\* VideoProcessorThread.run lines 53-57 for one file
VideoProcessorFile ==
    /\ pipeline = "VideoProcessorThread"
    /\ bpc = "work"
    /\ results' = Append(results, classify_video(files[idx], probes[files[idx]]))
    /\ signals' = Append(signals, <<"result", idx>>)
    /\ idx' = idx + 1
    /\ bpc' = "check"
    /\ UNCHANGED <<pipeline, files, probes, running>>
    /\ UNCHANGED <<file_hashes, notBatchVars>>

\* process_folder lines 23-34 for one file name of the walk
ProcessFolderFile ==
    /\ pipeline = "process_folder"
    /\ bpc = "check"
    /\ idx <= Len(files)
    /\ LET result == classify_video(files[idx], probes[files[idx]])
       IN  IF has_valid_ext(path_name[files[idx]]) /\ result.success
           THEN /\ results' = Append(results, result)
                /\ signals' = Append(signals, <<"result", idx>>)
           ELSE UNCHANGED <<results, signals>>
    /\ idx' = idx + 1
    /\ UNCHANGED <<pipeline, files, probes, running, bpc>>
    /\ UNCHANGED <<file_hashes, notBatchVars>>

\* the results of the finished scan that carry metadata
Organizable ==
    LET HasMeta(r) == probes[r.filepath].kind # "error"
    IN  SelectSeq(results, HasMeta)

\* the caller asks a destination for the next result of the finished scan
OrganizeResult ==
    /\ pipeline = "ScanWorker"
    /\ bpc = "finished"
    /\ Len(dests) < Len(Organizable)
    /\ LET r == Organizable[Len(dests) + 1]
       IN  GetDestinationEnter(path_name[r.filepath],
                               extract(probes[r.filepath]))

NextBatch ==
    \/ Stop
    \/ LoopNext
    \/ LoopStopped
    \/ LoopEnd
    \/ \E strict \in BOOLEAN : ScanWorkerFile(Io(strict, TRUE, TRUE))
    \/ VideoProcessorFile
    \/ ProcessFolderFile
    \/ OrganizeResult
    \/ GetDestinationRetry
    \/ GetDestinationReturn
    \/ \E i \in 1..MaxCalls : WriteReturned(i)

SpecBatch == InitBatch /\ [][NextBatch]_vars

----------------------------------------------------------------------------
(* Properties of the batch run *)

\* the file positions of the signals of one kind, in emission order
RECURSIVE Positions(_, _)
Positions(sigs, kind) ==
    IF sigs = <<>> THEN <<>>
    ELSE (IF Head(sigs)[1] = kind THEN <<Head(sigs)[2]>> ELSE <<>>)
            \o Positions(Tail(sigs), kind)

\* the positions a result record was produced for, and those a file was
\* started for
ResultPositions == Positions(signals, "result")

Started == Positions(signals, "progress")

\* run() or process_folder has ended, one way or another
RunOver == bpc \in {"finished", "returned", "crashed"}

\* the positions of the input files: process_folder takes the names of the
\* walk that have a video extension
RECURSIVE InputPositions(_)
InputPositions(n) ==
    IF n = 0 THEN <<>>
    ELSE InputPositions(n - 1)
            \o (IF pipeline = "process_folder"
                     /\ ~has_valid_ext(path_name[files[n]])
                THEN <<>> ELSE <<n>>)

IsPrefix(s, t) == Len(s) <= Len(t) /\ SubSeq(t, 1, Len(s)) = s

\* C11: a run that has ended without stop() being requested has produced one
\* result record for each input file, in input order.
C11_OneResultPerFileInOrder ==
    (RunOver /\ running) =>
        /\ ResultPositions = InputPositions(Len(files))
        /\ Len(results) = Len(ResultPositions)

\* C12: in the worker threads, a file whose probe failed or found no video
\* stream gets a record with the fallback classification SD, W, 30, and no
\* failure on a file ends the run.
C12_FailedProbeGivesFallback ==
    pipeline \in Threads =>
        /\ \A k \in DOMAIN results :
              probes[files[ResultPositions[k]]].kind # "video" =>
                  /\ results[k].resolution = <<"S", "D">>
                  /\ results[k].orientation = <<"W">>
                  /\ (IF pipeline = "ScanWorker" THEN results[k].fps
                      ELSE results[k].framerate_category) = 30
        /\ \A i \in 1..(idx - 1) : InSeq(ResultPositions, i)
        /\ bpc # "crashed"

\* C13: results and signals already emitted stay as they are; once stop() has
\* been requested no further file is started, and a result is only ever
\* emitted for a file that was started.
C13_StopCheckedBetweenFiles ==
    [][(pipeline \in Threads) =>
          (/\ IsPrefix(results, results')
           /\ IsPrefix(signals, signals')
           /\ ~running => Started' = Started
           /\ LET emitted == ResultPositions'
                  started == Started'
              IN  \A k \in DOMAIN emitted : InSeq(started, emitted[k]))
      ]_vars

\* C13 witness: stop() was requested during a three-file ScanWorker run, the
\* worker returned, and one file has a result.
C13_Witness ==
    /\ pipeline = "ScanWorker" /\ Len(files) = 3
    /\ ~running /\ bpc = "returned"
    /\ Started = <<1>> /\ ResultPositions = <<1>>

\* "1080p/1080p Wide 30"
FolderWide30 ==
    <<"1", "0", "8", "0", "p", "/", "1", "0", "8", "0", "p", " ",
      "W", "i", "d", "e", " ", "3", "0">>

\* clip1.mp4 and clip2.mp4 are 1920x1080 at 30 fps with identical bytes
TwoClips ==
    /\ pipeline = "ScanWorker"
    /\ files = <<"clip1.mp4", "clip2.mp4">>
    /\ \A p \in {"clip1.mp4", "clip2.mp4"} :
          fs[p] = Clip.file /\ probes[p] = Clip.probe
    /\ mode = "MaxVid"

\* C14: the finished MaxVid run over clip1.mp4 and clip2.mp4 has two result
\* records, the second a duplicate whose original is the first, and the two
\* destinations differ and lie under 1080p/1080p Wide 30/.
C14_EndToEndTwoClips ==
    (TwoClips /\ bpc = "finished" /\ Len(dests) = 2) =>
        /\ Len(results) = 2
        /\ ~results[1].is_duplicate
        /\ results[2].is_duplicate
        /\ get_original(file_hashes, fs["clip2.mp4"], "clip2.mp4",
                        Io(TRUE, TRUE, TRUE)).ret = "clip1.mp4"
        /\ dests[1].path # dests[2].path
        /\ dests[1].path[1] = FolderWide30
        /\ dests[2].path[1] = FolderWide30


----------------------------------------------------------------------------
(* The sanitizing functions on their own: one name, handed to
   Organizer._sanitize_filename, to MainWindow._sanitize_segment, to
   _resolve_unique_target's numbering and to _sanitize_segment again *)

\* the longest name drawn character by character
MaxName == 3

\* the highest number _resolve_unique_target is made to try
MaxTaken == 2

NameChars == {"a", "_", ".", " ", ":", "-", "@"}

\* the name of tests/test_tool_sanitization_preview.py
WeirdFile == <<"w", "e", "i", "r", "d", " ", "f", "i", "l", "e", " ", "@", " ",
               "n", "a", "m", "e", "!", "!", ".", "m", "p", "4">>

\* a name over max_len characters whose character number max_len is a
\* space, with an extension too long to be kept by the cut
LongSpaced ==
    [i \in 1..(max_len - 1) |-> "v"]
        \o <<" ", "v", ".">> \o Digit

Names ==
    UNION {[1..n -> NameChars] : n \in 1..MaxName}
        \cup {MyFile, WeirdFile, LongSpaced}

InitSan ==
    /\ name_in \in Names
    /\ san = NoClean
    /\ DupIdle
    /\ OrgIdle
    /\ ClsIdle
    /\ RootsIdle
    /\ BatchIdle
    /\ ScanIdle
    /\ TreeIdle

SanitizeFilenameCall ==
    /\ san.filename = <<>>
    /\ san' = [san EXCEPT !.filename = <<sanitize_filename(name_in)>>]
    /\ UNCHANGED name_in
    /\ UNCHANGED notSanVars

SanitizeSegmentCall ==
    /\ san.segment = <<>>
    /\ san' = [san EXCEPT !.segment = <<sanitize_segment(name_in)>>]
    /\ UNCHANGED name_in
    /\ UNCHANGED notSanVars

\* _resolve_unique_target finds the names up to number taken in use, for a
\* file or for a directory
ResolveUniqueTargetCall(is_dir, taken) ==
    /\ san.segment # <<>>
    /\ san.numbered = <<>>
    /\ san' = [san EXCEPT
                  !.numbered = <<candidate_name(san.segment[1], is_dir, taken)>>]
    /\ UNCHANGED name_in
    /\ UNCHANGED notSanVars

\* the second run meets the name the first run gave
SanitizeSegmentAgain ==
    /\ san.numbered # <<>>
    /\ san.again = <<>>
    /\ san' = [san EXCEPT !.again = <<sanitize_segment(san.numbered[1])>>]
    /\ UNCHANGED name_in
    /\ UNCHANGED notSanVars

NextSan ==
    \/ SanitizeFilenameCall
    \/ SanitizeSegmentCall
    \/ \E is_dir \in BOOLEAN, taken \in 0..MaxTaken :
          ResolveUniqueTargetCall(is_dir, taken)
    \/ SanitizeSegmentAgain

SpecSan == InitSan /\ [][NextSan]_vars


----------------------------------------------------------------------------
(* Claims about the sanitizing rules *)

MyFileMov == <<"m", "y", "_", "f", "i", "l", "e", ".", "m", "o", "v">>

MyFileUnderscoreMov == <<"m", "y", "_", "f", "i", "l", "e", "_", ".", "m", "o", "v">>

WeirdClean == <<"w", "e", "i", "r", "d", "_", "f", "i", "l", "e", "_", "n", "a", "m", "e",
               ".", "m", "p", "4">>

\* r neither starts nor ends with one of chars
Trimmed(r, chars) == r = <<>> \/ (r[1] \notin chars /\ r[Len(r)] \notin chars)

\* r holds no two characters a, b in a row
NoPair(r, a, b) == \A i \in 1..(Len(r) - 1) : ~(r[i] = a /\ r[i + 1] = b)

\* none of chars stands directly before r's last dot
CleanBeforeExtension(r, chars) ==
    LET i == rfind(r, ".") IN i > 1 => r[i - 1] \notin chars

\* C21 as stated: _sanitize_filename maps "my:file?.mov" to "my_file.mov";
\* every result is free of forbidden characters and of runs of
\* underscores, and has no underscore or space at its start, at its end
\* or directly before its extension.
C21_MyFileBecomesMyFileMov ==
    san.filename # <<>> =>
        LET r == san.filename[1]
        IN  /\ name_in = MyFile => r = MyFileMov
            /\ \A i \in DOMAIN r : r[i] \notin Forbidden
            /\ NoPair(r, "_", "_")
            /\ Trimmed(r, {" ", "_"})
            /\ CleanBeforeExtension(r, {" ", "_"})

\* C21 amended: _sanitize_filename maps "my:file?.mov" to "my_file_.mov";
\* every result is free of forbidden characters, of runs of underscores
\* and of whitespace other than single spaces, and a name of at most
\* max_len characters comes out with no underscore or space at its start
\* or end. An underscore directly before the extension stays.
C21_MyFileKeepsUnderscoreBeforeDot ==
    san.filename # <<>> =>
        LET r == san.filename[1]
        IN  /\ name_in = MyFile => r = MyFileUnderscoreMov
            /\ \A i \in DOMAIN r : r[i] \notin Forbidden
            /\ \A i \in DOMAIN r : r[i] \in Whitespace => r[i] = " "
            /\ NoPair(r, "_", "_")
            /\ NoPair(r, " ", " ")
            /\ Len(name_in) <= max_len => Trimmed(r, {" ", "_"})

C21_Witness ==
    /\ name_in = MyFile
    /\ san.filename = <<MyFileUnderscoreMov>>

\* C22 as stated: for every name, _sanitize_segment gives what
\* Organizer._sanitize_filename gives.
C22_SegmentRuleIsFilenameRule ==
    (san.filename # <<>> /\ san.segment # <<>>) => san.segment = san.filename

\* C22 amended: _sanitize_segment is a rule of its own. Its result is
\* never empty, holds only letters, digits, dot, underscore and hyphen,
\* neither starts nor ends with dot, underscore or hyphen, and holds no
\* run of underscores and no underscore directly before a dot:
\* "weird file @ name!!.mp4" becomes "weird_file_name.mp4" and
\* "my:file?.mov" becomes "my_file.mov".
C22_SegmentRuleIsStricter ==
    san.segment # <<>> =>
        LET r == san.segment[1]
        IN  /\ r # <<>>
            /\ \A i \in DOMAIN r : is_safe(r[i])
            /\ Trimmed(r, {".", "_", "-"})
            /\ NoPair(r, "_", "_")
            /\ NoPair(r, "_", ".")
            /\ name_in = WeirdFile => r = WeirdClean
            /\ name_in = MyFile => r = MyFileMov

C22_Witness ==
    /\ name_in = WeirdFile
    /\ san.segment = <<WeirdClean>>
    /\ san.filename = <<WeirdFile>>


----------------------------------------------------------------------------
(* A file against itself *)

\* C28: whenever is_duplicate(p) has returned True, the stored original
\* get_original(p) is a path other than p.
C28_NeverDuplicateOfItself ==
    (last.op = "is_duplicate" /\ last.retb) =>
        get_original(file_hashes, fs[last.path], last.path, last.io).ret
            # last.path


----------------------------------------------------------------------------
(* The completion signal *)

\* C27: nothing is emitted after the completion signal, and a worker's run
\* that has ended has emitted it, once, as its last signal.
C27_RunEndsWithOneCompletionSignal ==
    pipeline \in Threads =>
        /\ \A i \in DOMAIN signals :
              signals[i] = <<"done">> => i = Len(signals)
        /\ RunOver => (signals # <<>> /\ signals[Len(signals)] = <<"done">>)


----------------------------------------------------------------------------
(* The shape of a destination *)

\* the subfolder the naming scheme gives a mode
SchemeSubfolder(m, cat) ==
    CASE m \in {"VidRes", "KeepName"} -> cat[1]
      [] m = "ProMax" -> cat[1] \o <<" ">> \o cat[2]
      [] m = "MaxVid" -> cat[1] \o <<" ">> \o cat[2] \o <<" ">> \o str_int(cat[3])
      [] m \in {"ProVid", "EmojiVid"} -> <<>>

\* the marks in the order device, camera lens, GPS, edited, and a space
\* after them when there is one
SchemeEmojis(md) ==
    LET marks == (IF md.iphone_model # <<>> THEN <<"U+1F4F1">> ELSE <<>>)
                 \o (IF md.has_camera_lens THEN <<"U+1F4F7">> ELSE <<>>)
                 \o (IF md.has_gps THEN <<"U+1F30D">> ELSE <<>>)
                 \o (IF md.is_edited THEN <<"U+2702", "U+FE0F">> ELSE <<>>)
    IN  IF marks = <<>> THEN <<>> ELSE marks \o <<" ">>

\* NNN: the counter, zero-padded to 3 digits
SchemeCounter(n) ==
    IF n < 10 THEN <<"0", "0">> \o str_int(n)
    ELSE IF n < 100 THEN <<"0">> \o str_int(n)
    ELSE str_int(n)

\* the name the naming scheme composes, before it is sanitized
SchemeName(m, pfx, file_name, md, cat, n) ==
    LET pre == IF pfx = <<>> THEN <<>> ELSE pfx \o <<" ">>
        tail == SchemeCounter(n) \o <<".">> \o ext_of(file_name)
    IN  CASE m = "KeepName" -> stem(file_name) \o <<"_">> \o tail
          [] m = "EmojiVid" -> pre \o SchemeEmojis(md) \o tail
          [] OTHER -> pre \o cat[1] \o <<" ">> \o cat[2] \o str_int(cat[3])
                          \o <<" ">> \o SchemeEmojis(md) \o tail

----------------------------------------------------------------------------
(* Scans started one after the other: the main thread runs _start_scan and
   the slots of the queued worker signals, the worker thread runs
   ScanWorker.run *)

\* how many times _start_scan is called
MaxScans == 2

ScanPaths == {"a.mp4", "b.mp4", "c.mp4"}

\* the file lists of a scan: one or two different files
ScanLists ==
    {<<p>> : p \in ScanPaths}
        \cup {l \in [1..2 -> ScanPaths] : l[1] # l[2]}

InitScan ==
    /\ ScanIdle
    /\ DupIdle
    /\ OrgIdle
    /\ ClsIdle
    /\ RootsIdle
    /\ BatchIdle
    /\ SanIdle
    /\ TreeIdle

\* _start_scan lines 1109-1134 up to wait(): a running worker is told to
\* stop and the main thread blocks in wait(); with no running worker the
\* call resets the table and starts the new worker at once
StartScanEnter(scan_files) ==
    /\ mpc = "events"
    /\ scan_worker.id < MaxScans
    /\ IF scan_worker.id > 0 /\ isRunning(scan_worker)
       THEN /\ scan_worker' = [scan_worker EXCEPT !.running = FALSE]
            /\ mpc' = "wait"
            /\ pending' = scan_files
            /\ UNCHANGED all_video_data
       ELSE /\ all_video_data' = NoData
            /\ scan_worker' = ScanWorker(scan_worker.id + 1, scan_files)
            /\ UNCHANGED <<mpc, pending>>
    /\ UNCHANGED event_queue
    /\ UNCHANGED notScanVars

\* wait() returns once run() has returned: lines 1113-1134
StartScanResume ==
    /\ mpc = "wait"
    /\ ~isRunning(scan_worker)
    /\ all_video_data' = NoData
    /\ scan_worker' = ScanWorker(scan_worker.id + 1, pending)
    /\ mpc' = "events"
    /\ pending' = <<>>
    /\ UNCHANGED event_queue
    /\ UNCHANGED notScanVars

\* ScanWorker.run lines 180-183 and 206: the top of the loop
WorkerCheck ==
    /\ scan_worker.at = "check"
    /\ IF scan_worker.i > Len(scan_worker.files)
       THEN /\ event_queue' = Append(event_queue, <<"done", scan_worker.id>>)
            /\ scan_worker' = [scan_worker EXCEPT !.at = "over"]
       ELSE IF ~scan_worker.running
       THEN /\ scan_worker' = [scan_worker EXCEPT !.at = "over"]
            /\ UNCHANGED event_queue
       ELSE /\ event_queue' = Append(event_queue,
                                     <<"progress", scan_worker.id,
                                       scan_worker.i>>)
            /\ scan_worker' = [scan_worker EXCEPT !.at = "work"]
    /\ UNCHANGED <<all_video_data, mpc, pending>>
    /\ UNCHANGED notScanVars

\* ScanWorker.run lines 184-205: the record of one file is emitted
WorkerFile ==
    /\ scan_worker.at = "work"
    /\ event_queue' = Append(event_queue,
                             <<"result", scan_worker.id,
                               scan_worker.files[scan_worker.i]>>)
    /\ scan_worker' = [scan_worker EXCEPT !.i = @ + 1, !.at = "check"]
    /\ UNCHANGED <<all_video_data, mpc, pending>>
    /\ UNCHANGED notScanVars

\* the event loop of the main thread runs the slot of the oldest queued
\* signal
DeliverEvent ==
    /\ mpc = "events"
    /\ event_queue # <<>>
    /\ all_video_data' = on_result(all_video_data, scan_worker,
                                   Head(event_queue))
    /\ event_queue' = Tail(event_queue)
    /\ UNCHANGED <<scan_worker, mpc, pending>>
    /\ UNCHANGED notScanVars

NextScan ==
    \/ \E scan_files \in ScanLists : StartScanEnter(scan_files)
    \/ StartScanResume
    \/ WorkerCheck
    \/ WorkerFile
    \/ DeliverEvent

SpecScan == InitScan /\ [][NextScan]_vars

\* C29: once _start_scan has reset the table and started its worker,
\* all_video_data holds only records of files of that scan.
C29_TableHoldsCurrentScanOnly ==
    (mpc = "events" /\ scan_worker.id > 0) =>
        DOMAIN all_video_data \subseteq Range(scan_worker.files)


----------------------------------------------------------------------------
(* Input trees: one folder "r r" of the top directory "t", what it may hold,
   and a file "f f.m" next to it; _sanitize_inputs is run on them, then on
   the roots it returned *)

\* how many times _sanitize_inputs is run
MaxTreeRuns == 2

\* the names: those the entries start with and those a run may give them
Name_t == <<"t">>

Name_r_r_raw == <<"r", " ", "r">>

Name_r_r == <<"r", "_", "r">>

Name_r_r_1 == <<"r", "_", "r", "_", "1">>

Name_f_f_raw == <<"f", " ", "f", ".", "m">>

Name_f_f == <<"f", "_", "f", ".", "m">>

Name_a_b_raw == <<"a", " ", "b", ".", "m">>

Name_a_b == <<"a", "_", "b", ".", "m">>

Name_a_colon_b == <<"a", ":", "b", ".", "m">>

Name_a_b_1 == <<"a", "_", "b", "_", "1", ".", "m">>

Name_a_b_2 == <<"a", "_", "b", "_", "2", ".", "m">>

Name_d_d_raw == <<"d", " ", "d">>

Name_d_d == <<"d", "_", "d">>

Name_d_d_1 == <<"d", "_", "d", "_", "1">>

Name_x_y_raw == <<"x", " ", "y">>

Name_x_y == <<"x", "_", "y">>

\* the names in one order in which the system may list a directory
Listing ==
    <<Name_t, Name_r_r_raw, Name_r_r, Name_r_r_1,
      Name_f_f_raw, Name_f_f, Name_a_b_raw, Name_a_b,
      Name_a_colon_b, Name_a_b_1, Name_a_b_2, Name_d_d_raw,
      Name_d_d, Name_d_d_1, Name_x_y_raw, Name_x_y>>

TopDir == <<Name_t>>

InputRoot == child(TopDir, Name_r_r_raw)

InputFile == child(TopDir, Name_f_f_raw)

\* the entries an input tree may start with: "a b.m" alone or with
\* "a:b.m", a folder "d d" holding "x y", the file "f f.m" next to the
\* root; the sanitized name of the files may be taken by a file or by a
\* link whose target is missing, that of the folders ("r_r" and "d_d") by a
\* folder or by such a link
TreeChoices ==
    {c \in [files : {"none", "one", "two"},
            file_taken : {"none", "file", "link"},
            folder : BOOLEAN, folder_taken : {"none", "dir", "link"},
            f_f : BOOLEAN,
            locked : {"none", "file", "folder", "root"}] :
        /\ c.files = "none" => (c.file_taken = "none" /\ c.locked # "file")
        /\ ~c.folder => c.locked # "folder"}

\* the entry of a tree that the system refuses to rename, if any
LockedOf(c) ==
    CASE c.locked = "file" -> {child(InputRoot, Name_a_b_raw)}
      [] c.locked = "folder" -> {child(InputRoot, Name_d_d_raw)}
      [] c.locked = "root" -> {InputRoot}
      [] OTHER -> {}

EntriesOf(c) ==
    LET InRoot(name) == child(InputRoot, name)
    IN  {<<TopDir, "dir">>, <<InputRoot, "dir">>}
        \cup (IF c.f_f THEN {<<InputFile, "file">>} ELSE {})
        \cup (IF c.files = "none" THEN {}
              ELSE {<<InRoot(Name_a_b_raw), "file">>})
        \cup (IF c.files = "two" THEN {<<InRoot(Name_a_colon_b), "file">>}
              ELSE {})
        \cup (IF c.file_taken = "none" THEN {}
              ELSE {<<InRoot(Name_a_b), c.file_taken>>})
        \cup (IF c.folder
              THEN {<<InRoot(Name_d_d_raw), "dir">>,
                    <<child(InRoot(Name_d_d_raw), Name_x_y_raw), "file">>}
              ELSE {})
        \cup (IF c.folder_taken = "none" THEN {}
              ELSE {<<child(TopDir, Name_r_r), c.folder_taken>>,
                    <<InRoot(Name_d_d), c.folder_taken>>})

TreeOf(c) ==
    LET entries == EntriesOf(c)
    IN  [q \in {e[1] : e \in entries} |->
            [kind |-> (CHOOSE e \in entries : e[1] = q)[2],
             locked |-> q \in LockedOf(c), was |-> q]]

InitTree ==
    /\ \E c \in TreeChoices : tree = TreeOf(c)
    /\ listing \in {Listing, [i \in DOMAIN Listing |->
                                  Listing[Len(Listing) + 1 - i]]}
    /\ tpc = "idle"
    /\ job = NoJob
    /\ tree_runs = <<>>
    /\ rename_log = <<>>
    /\ DupIdle
    /\ OrgIdle
    /\ ClsIdle
    /\ RootsIdle
    /\ BatchIdle
    /\ SanIdle
    /\ ScanIdle

\* the inputs of the next run: the folder and the file the user picked,
\* then the roots the run before returned
NextInputs ==
    IF tree_runs = <<>>
    THEN <<InputRoot>> \o (IF InputFile \in DOMAIN tree THEN <<InputFile>>
                           ELSE <<>>)
    ELSE tree_runs[Len(tree_runs)].sanitized_roots

\* _dedupe_input_roots on paths that are resolved already: those that
\* exist, in the set's iteration order (the inputs' order or its reverse),
\* sorted by depth, nested ones dropped
dedupe_resolved(t, paths, flip) ==
    LET Exists(q) == tree_exists(t, q)
        normalized == SelectSeq(paths, Exists)
        iteration == IF flip
                     THEN [k \in DOMAIN normalized |->
                              normalized[Len(normalized) + 1 - k]]
                     ELSE normalized
    IN  keep_roots(sorted_by_parts(iteration, 1), <<>>)

\* _sanitize_inputs lines 988-991
SanitizeInputsEnter(flip) ==
    /\ tpc = "idle"
    /\ Len(tree_runs) < MaxTreeRuns
    /\ job' = [NoJob EXCEPT !.inputs = NextInputs,
                            !.roots = dedupe_resolved(tree, NextInputs, flip)]
    /\ tpc' = "roots"
    /\ UNCHANGED <<tree, listing, tree_runs, rename_log>>
    /\ UNCHANGED notTreeVars

\* lines 993-1003, the next root: a file is renamed on its own; for a
\* folder _sanitize_directory_tree starts its walk, lines 963-982, and
\* ends with the folder itself
SanitizeInputsNextRoot ==
    /\ tpc = "roots"
    /\ job.roots # <<>>
    /\ LET root == Head(job.roots)
           renames ==
               IF tree_is_file(tree, root)
               THEN <<[path |-> root, is_dir |-> FALSE, role |-> "file"]>>
               ELSE IF tree_is_dir(tree, root)
               THEN walk(tree, root, listing)
                        \o <<[path |-> root, is_dir |-> TRUE,
                              role |-> "root"]>>
               ELSE <<>>
       IN  /\ job' = [job EXCEPT !.roots = Tail(@), !.renames = renames]
           /\ tpc' = IF renames = <<>> THEN "roots" ELSE "renames"
    /\ UNCHANGED <<tree, listing, tree_runs, rename_log>>
    /\ UNCHANGED notTreeVars

\* one _rename_to_sanitized call of the walk, of its end, or of a file
\* root, and what its caller does with the result. rename_log notes the
\* call: the path it was given and whether that path was on disk (there),
\* the entry at that path and the entries below it (each known by the path
\* it had at the start), the target if a rename was tried and whether the
\* target was on disk (taken), whether the rename went through (went), the
\* path returned (now), and how many calls of the root were left
RenameToSanitized ==
    /\ tpc = "renames"
    /\ LET r == Head(job.renames)
           out == rename_to_sanitized(tree, r.path, r.is_dir)
           went == out.tree # tree
       IN  /\ tree' = out.tree
           /\ job' = [job EXCEPT
                  !.renames = Tail(@),
                  !.changed_files =
                      IF out.changed /\ ~r.is_dir THEN @ + 1 ELSE @,
                  !.changed_dirs =
                      IF out.changed /\ r.is_dir THEN @ + 1 ELSE @,
                  !.sanitized_roots =
                      IF r.role = "entry" THEN @ ELSE Append(@, out.path)]
           /\ rename_log' =
                  Append(rename_log,
                         [run |-> Len(tree_runs) + 1, path |-> r.path,
                          is_dir |-> r.is_dir, role |-> r.role,
                          there |-> r.path \in DOMAIN tree,
                          tried |-> out.tried,
                          taken |-> out.tried # <<>>
                                    /\ out.tried[1] \in DOMAIN tree,
                          changed |-> out.changed, went |-> went,
                          now |-> out.path,
                          entry |-> {tree[q].was : q \in {r.path}
                                                       \cap DOMAIN tree},
                          below |-> {tree[q].was :
                                        q \in under(tree, r.path) \ {r.path}},
                          left |-> Len(job.renames) - 1])
           /\ tpc' = IF Len(job.renames) = 1 THEN "roots" ELSE "renames"
    /\ UNCHANGED <<listing, tree_runs>>
    /\ UNCHANGED notTreeVars

\* line 1005: return sanitized_roots, changed_files, changed_dirs
SanitizeInputsReturn ==
    /\ tpc = "roots"
    /\ job.roots = <<>>
    /\ tree_runs' = Append(tree_runs,
                           [inputs |-> job.inputs,
                            sanitized_roots |-> job.sanitized_roots,
                            changed_files |-> job.changed_files,
                            changed_dirs |-> job.changed_dirs])
    /\ job' = NoJob
    /\ tpc' = "idle"
    /\ UNCHANGED <<tree, listing, rename_log>>
    /\ UNCHANGED notTreeVars

NextTree ==
    \/ \E flip \in BOOLEAN : SanitizeInputsEnter(flip)
    \/ SanitizeInputsNextRoot
    \/ RenameToSanitized
    \/ SanitizeInputsReturn

SpecTree == InitTree /\ [][NextTree]_vars

----------------------------------------------------------------------------
(* Claims about _sanitize_inputs, checked under SpecTree *)

\* the records of the calls of run k
RenamesOf(k) == {i \in DOMAIN rename_log : rename_log[i].run = k}

\* a call whose rename failed at the filesystem level
Failed(i) == rename_log[i].tried # <<>> /\ ~rename_log[i].went

\* C23: a sanitizing rename never targets an existing path, so no entry
\* that was on disk before is overwritten or lost
C23_RenameNeverReplacesAnEntry ==
    \A i \in DOMAIN rename_log :
        ~(rename_log[i].went /\ rename_log[i].taken)

\* the rename call the next step makes, and whether its rename fails
NextCall == Head(job.renames)

NextCallFails ==
    LET out == rename_to_sanitized(tree, NextCall.path, NextCall.is_dir)
    IN  out.tried # <<>> /\ out.tree = tree

Above(a, b) == Len(a) < Len(b) /\ SubSeq(b, 1, Len(a)) = a

\* C26: children before parents: every call addresses a path that is on
\* disk under that name when the call is made, every entry below a
\* directory was processed before the directory's call and none is
\* processed after it, and the call for the root is the last of its walk
C26_ChildrenBeforeParents ==
    \A i \in DOMAIN rename_log :
        LET r == rename_log[i]
            before == {j \in RenamesOf(r.run) : j < i}
            after == {j \in RenamesOf(r.run) : j > i}
        IN  /\ r.there
            /\ r.below \subseteq UNION {rename_log[j].entry : j \in before}
            /\ \A j \in after : ~Above(r.path, rename_log[j].path)
            /\ r.role = "root" => r.left = 0

\* a folder with an entry below it was renamed inside the root, and the
\* root was renamed after it
C26_Witness ==
    \E i, j \in DOMAIN rename_log :
        /\ i < j
        /\ rename_log[i].run = rename_log[j].run
        /\ rename_log[i].role = "entry"
        /\ rename_log[i].is_dir
        /\ rename_log[i].below # {}
        /\ rename_log[i].went
        /\ rename_log[j].role = "root"
        /\ rename_log[j].went

\* whether every rename run k tried went through
AllWent(k) == \A i \in RenamesOf(k) : ~Failed(i)

\* C30: input sanitization is idempotent: after a run in which every
\* rename went through, the next run on the roots it returned changes no
\* file and no directory and returns the same roots; every name a rename
\* gave, the numbered ones included, is left as it is by _sanitize_segment
C30_SecondRunRenamesNothing ==
    /\ \A k \in DOMAIN tree_runs :
           (k > 1 /\ AllWent(k - 1)) =>
               /\ tree_runs[k].changed_files = 0
               /\ tree_runs[k].changed_dirs = 0
               /\ tree_runs[k].inputs = tree_runs[k - 1].sanitized_roots
               /\ Range(tree_runs[k].sanitized_roots) =
                      Range(tree_runs[k - 1].sanitized_roots)
               /\ Len(tree_runs[k].sanitized_roots) =
                      Len(tree_runs[k - 1].sanitized_roots)
    /\ \A i \in DOMAIN rename_log :
           rename_log[i].went =>
               sanitize_segment(base_name(rename_log[i].now)) =
                   base_name(rename_log[i].now)

\* a first run renamed a file to a numbered name, a folder and the root,
\* every rename went through, and a second run has returned
C30_Witness ==
    /\ Len(tree_runs) >= 2
    /\ AllWent(1)
    /\ tree_runs[1].changed_files >= 1
    /\ tree_runs[1].changed_dirs >= 2
    /\ \E i \in RenamesOf(1) :
           /\ rename_log[i].went
           /\ base_name(rename_log[i].now) \in {Name_a_b_1, Name_a_b_2}

====
